---- MODULE Spec2Model ----
(***************************************************************************)
(* DigiRaksha chatbot backend: the semantic QA store and its resolver      *)
(* cascade, the emotion analyzer, the per-user conversation context store, *)
(* the query classifier and the response orchestrator.                     *)
(*                                                                         *)
(* Texts are sequences of one-character strings (Chars of a literal).      *)
(* Scores that the code keeps as floats are integers in hundredths (0.65   *)
(* is 65); the Jaccard overlap and the SequenceMatcher ratio are exact     *)
(* fractions num/den.  The sentence-embedding model, the emotion           *)
(* classifier, the sentiment scorers and the text generator are            *)
(* libraries: their values are inputs of the calls.                        *)
(***************************************************************************)
EXTENDS Integers, Sequences, FiniteSets, TLC

VARIABLES
    \* SemanticTrainingEngine
    qa_database,            \* list of QA records
    question_embeddings,    \* list of embeddings, one per encoded question
    embedding_model,        \* TRUE once SentenceTransformer is loaded
    is_initialized,
    qa_database_file,       \* backend/qa_database.json
    embedding_cache_file,   \* backend/question_embeddings.pkl
    last_op,                \* the engine operation that completed last
    add_call,               \* the last add_qa_pairs call, kept by SpecIngest
    find_call,              \* the inputs of the last find_best_answer
    find_result             \* what that call returned

engineVars == <<qa_database, question_embeddings, embedding_model,
                is_initialized, qa_database_file, embedding_cache_file,
                last_op, add_call, find_call, find_result>>

VARIABLES
    \* AdvancedAIService.classify_query
    query,                  \* the text being classified
    classification          \* what classify_query returned for it

classifierVars == <<query, classification>>

VARIABLES
    \* EnhancedEmotionalIntelligence
    SENTIMENT_AVAILABLE,    \* vaderSentiment and textblob were imported
    TRANSFORMERS_AVAILABLE, \* transformers was imported
    vader_analyzer,         \* TRUE once SentimentIntensityAnalyzer is loaded
    emotion_classifier,     \* TRUE once the classification pipeline is loaded
    ei_is_initialized,      \* is_initialized of the analyzer
    analyzed_text,          \* the text of the last analyze_text_emotions call
    emotion_analysis,       \* the EmotionAnalysis that call returned
    library_outcome         \* what the libraries and the steps did during that call

analyzerVars == <<SENTIMENT_AVAILABLE, TRANSFORMERS_AVAILABLE, vader_analyzer,
                  emotion_classifier, ei_is_initialized, analyzed_text,
                  emotion_analysis, library_outcome>>

VARIABLES
    \* EnhancedEmotionalIntelligence.conversation_contexts
    conversation_contexts,  \* user id -> ConversationContext
    appended,               \* user id -> every history entry ever appended
    emotional_state_summary \* what the last get_emotional_state_summary returned

contextVars == <<conversation_contexts, appended, emotional_state_summary>>

VARIABLES
    \* AdvancedAIService and one generate_response call
    service_is_initialized, \* AdvancedAIService.is_initialized
    generator,              \* TRUE once the text-generation pipeline is loaded
    current_personality,    \* PersonalityEngine.current_personality
    pc,                     \* where the generate_response call stands
    request_message,        \* its user_message
    request_user,           \* its user_id ("" when none is given)
    response_text,          \* its local response_text
    response_metadata,      \* what it returned
    failing_part            \* the part of the environment that fails in this run

chatVars == <<service_is_initialized, generator, current_personality, pc,
              request_message, request_user, response_text, response_metadata>>

VARIABLES
    shape_call,             \* the inputs of the last generate_personality_enhanced_response call
    shape_result            \* what it returned

shapeVars == <<shape_call, shape_result>>

VARIABLES
    context_objects,        \* the ConversationContext objects ever constructed, by identity
    context_refs,           \* self.conversation_contexts: the object each user id refers to
    thread_pc,              \* the statement each request thread is about to run
    thread_frame            \* the arguments and the local `context` of each thread

threadVars == <<context_objects, context_refs, thread_pc, thread_frame>>

VARIABLES
    ingest_pc,              \* the statement the add_qa_pairs caller is about to run
    ingest_frame,           \* its locals, and the databases its calls started and ended with
    resolver_pc,            \* the statement the find_best_answer caller is about to run
    resolver_frame          \* its locals, and the lists it has read

swapVars == <<ingest_pc, ingest_frame, resolver_pc, resolver_frame>>

VARIABLES
    route_pc,               \* where the /chat request of each thread stands
    route_request,          \* the body of that request
    route_response          \* the status, the error and the profile of its response

routeVars == <<route_pc, route_request, route_response>>

VARIABLES
    custom_message,         \* the message of the last get_custom_response call
    custom_response,        \* the category whose response it returned
    custom_asked            \* TRUE once get_custom_response has been called

customVars == <<custom_message, custom_response, custom_asked>>

VARIABLES
    cache_at_load           \* the embedding cache file the last initialize() found

\* what the operations of the engine, the classifier, the analyzer, the
\* context store and the chat service do not touch
otherVars == <<failing_part, shapeVars, threadVars, swapVars, routeVars, cache_at_load, customVars>>

vars == <<engineVars, classifierVars, analyzerVars, contextVars, chatVars, otherVars>>

(***************************************************************************)
(* Text primitives (Python str methods and the re calls of the engine)     *)
(***************************************************************************)
\* the text of a literal, character by character
Chars(str) == [i \in 1..Len(str) |-> SubSeq(str, i, i)]

Whitespace == {" ", "\t", "\n"}

LowerLetters == {"a","b","c","d","e","f","g","h","i","j","k","l","m",
                 "n","o","p","q","r","s","t","u","v","w","x","y","z"}

UpperToLower ==
    "A" :> "a" @@ "B" :> "b" @@ "C" :> "c" @@ "D" :> "d" @@ "E" :> "e" @@
    "F" :> "f" @@ "G" :> "g" @@ "H" :> "h" @@ "I" :> "i" @@ "J" :> "j" @@
    "K" :> "k" @@ "L" :> "l" @@ "M" :> "m" @@ "N" :> "n" @@ "O" :> "o" @@
    "P" :> "p" @@ "Q" :> "q" @@ "R" :> "r" @@ "S" :> "s" @@ "T" :> "t" @@
    "U" :> "u" @@ "V" :> "v" @@ "W" :> "w" @@ "X" :> "x" @@ "Y" :> "y" @@
    "Z" :> "z"

Digits == {"0","1","2","3","4","5","6","7","8","9"}

\* \w of the re module
IsWordChar(c) == c \in LowerLetters \cup DOMAIN UpperToLower \cup Digits \cup {"_"}

\* str.lower()
Lower(s) == [i \in 1..Len(s) |->
                IF s[i] \in DOMAIN UpperToLower THEN UpperToLower[s[i]] ELSE s[i]]

RECURSIVE LStrip(_)
LStrip(s) == IF s # <<>> /\ Head(s) \in Whitespace THEN LStrip(Tail(s)) ELSE s

RECURSIVE RStrip(_)
RStrip(s) == IF s # <<>> /\ s[Len(s)] \in Whitespace
             THEN RStrip(SubSeq(s, 1, Len(s) - 1)) ELSE s

\* str.strip()
Strip(s) == RStrip(LStrip(s))

\* str.split(): the maximal runs of non-whitespace characters, in order
RECURSIVE SplitFrom(_, _, _)
SplitFrom(s, i, word) ==
    IF i > Len(s)
    THEN IF word = <<>> THEN <<>> ELSE <<word>>
    ELSE IF s[i] \in Whitespace
         THEN IF word = <<>> THEN SplitFrom(s, i + 1, <<>>)
              ELSE <<word>> \o SplitFrom(s, i + 1, <<>>)
         ELSE SplitFrom(s, i + 1, Append(word, s[i]))

Split(s) == SplitFrom(s, 1, <<>>)

Range(f) == {f[i] : i \in DOMAIN f}

\* `sub in text` of Python: sub occurs in text as a contiguous run
Contains(text, sub) ==
    \E i \in 0..(Len(text) - Len(sub)) : SubSeq(text, i + 1, i + Len(sub)) = sub

(***************************************************************************)
(* Regular expressions of the re module.  A pattern is a tree of nodes; the *)
(* tables below are written with these constructors, one per construct the *)
(* patterns of the source use.                                             *)
(***************************************************************************)
Lit(str)   == [op |-> "lit", arg |-> Chars(str), parts |-> <<>>]  \* literal text
Cat(parts) == [op |-> "cat", arg |-> <<>>, parts |-> parts]       \* r1 r2 ...
Alt(parts) == [op |-> "alt", arg |-> <<>>, parts |-> parts]       \* (r1|r2|...)
Opt(part)  == [op |-> "opt", arg |-> <<>>, parts |-> <<part>>]    \* r?
WS0        == [op |-> "ws0", arg |-> <<>>, parts |-> <<>>]        \* \s*
WS1        == [op |-> "ws1", arg |-> <<>>, parts |-> <<>>]        \* \s+
AnyRun     == [op |-> "any", arg |-> <<>>, parts |-> <<>>]        \* .*
Bol        == [op |-> "bol", arg |-> <<>>, parts |-> <<>>]        \* ^
WordB      == [op |-> "wb",  arg |-> <<>>, parts |-> <<>>]        \* \b

\* a pattern as the source writes it, with its tree
Pattern(src, tree) == [src |-> src, tree |-> tree]

\* \b at offset p: exactly one of the characters around it is a word character
AtWordBoundary(text, p) ==
    LET before == p >= 1 /\ IsWordChar(text[p])
        after  == p < Len(text) /\ IsWordChar(text[p + 1])
    IN  before # after

\* the offsets at which a match of the node that starts at offset p can end
RECURSIVE MatchEnds(_, _, _)
RECURSIVE MatchEndsCat(_, _, _, _)
MatchEnds(node, text, p) ==
    CASE node.op = "lit" ->
            IF /\ p + Len(node.arg) <= Len(text)
               /\ SubSeq(text, p + 1, p + Len(node.arg)) = node.arg
            THEN {p + Len(node.arg)} ELSE {}
      [] node.op = "ws0" ->
            {q \in p..Len(text) : \A k \in (p + 1)..q : text[k] \in Whitespace}
      [] node.op = "ws1" ->
            {q \in (p + 1)..Len(text) : \A k \in (p + 1)..q : text[k] \in Whitespace}
      [] node.op = "any" ->
            {q \in p..Len(text) : \A k \in (p + 1)..q : text[k] # "\n"}
      [] node.op = "alt" ->
            UNION {MatchEnds(node.parts[i], text, p) : i \in 1..Len(node.parts)}
      [] node.op = "cat" -> MatchEndsCat(node.parts, 1, text, {p})
      [] node.op = "opt" -> {p} \cup MatchEnds(node.parts[1], text, p)
      [] node.op = "bol" -> IF p = 0 THEN {p} ELSE {}
      [] node.op = "wb"  -> IF AtWordBoundary(text, p) THEN {p} ELSE {}

MatchEndsCat(parts, i, text, starts) ==
    IF i > Len(parts) \/ starts = {} THEN starts
    ELSE MatchEndsCat(parts, i + 1, text,
                      UNION {MatchEnds(parts[i], text, p) : p \in starts})

\* re.search(pattern, text) finds a match
Search(pattern, text) ==
    \E p \in 0..Len(text) : MatchEnds(pattern.tree, text, p) # {}

\* ' '.join(words)
RECURSIVE Join(_)
Join(words) ==
    IF words = <<>> THEN <<>>
    ELSE IF Len(words) = 1 THEN Head(words)
    ELSE Head(words) \o <<" ">> \o Join(Tail(words))


\* text[p+1 .. p+Len(sub)] = sub
OccursAt(text, sub, p) ==
    p + Len(sub) <= Len(text) /\ SubSeq(text, p + 1, p + Len(sub)) = sub

\* the texts pieces[lo], ..., pieces[hi] one after the other
RECURSIVE Flatten(_, _, _)
Flatten(pieces, lo, hi) ==
    IF lo > hi THEN <<>>
    ELSE IF lo = hi THEN pieces[lo]
    ELSE LET mid == (lo + hi) \div 2
         IN  Flatten(pieces, lo, mid) \o Flatten(pieces, mid + 1, hi)

\* scanning from the left, the match that starts at offset p is taken when
\* no match taken before it reaches over p
RECURSIVE MatchTaken(_, _, _)
MatchTaken(starts, width, p) ==
    /\ p \in starts
    /\ \A q \in (p - width + 1)..(p - 1) : ~MatchTaken(starts, width, q)

\* the text with the matches of the given width that start at the offsets
\* of starts replaced by new, from the left and without overlap
Substitute(text, starts, width, new) ==
    LET taken == {p \in starts : MatchTaken(starts, width, p)}
        piece == [p \in 0..(Len(text) - 1) |->
                     IF p \in taken THEN new
                     ELSE IF \E q \in taken : q < p /\ p < q + width THEN <<>>
                     ELSE <<text[p + 1]>>]
    IN  Flatten(piece, 0, Len(text) - 1)

\* text.replace(old, new); old is not empty
Replace(text, old, new) ==
    Substitute(text, {p \in 0..(Len(text) - Len(old)) : OccursAt(text, old, p)},
               Len(old), new)

\* re.sub(r'\bword\b', new, text, flags=re.IGNORECASE)
SubWord(text, word, new) ==
    LET text_lower == Lower(text)
        word_lower == Lower(word)
    IN  Substitute(text,
                   {p \in 0..(Len(text) - Len(word)) :
                        /\ OccursAt(text_lower, word_lower, p)
                        /\ AtWordBoundary(text, p)
                        /\ AtWordBoundary(text, p + Len(word))},
                   Len(word), new)

\* text.count(sub): the occurrences from the left without overlap
Count(text, sub) ==
    LET starts == {p \in 0..(Len(text) - Len(sub)) : OccursAt(text, sub, p)}
    IN  Cardinality({p \in starts : MatchTaken(starts, Len(sub), p)})

\* text.split('\n')
SplitLines(text) ==
    LET breaks == {p \in 1..Len(text) : text[p] = "\n"}
        \* the position of the k-th line break; 0 and Len(text) + 1 bound the text
        break(k) == IF k = 0 THEN 0
                    ELSE IF k > Cardinality(breaks) THEN Len(text) + 1
                    ELSE CHOOSE p \in breaks :
                             Cardinality({q \in breaks : q <= p}) = k
    IN  [k \in 1..(Cardinality(breaks) + 1) |->
            SubSeq(text, break(k - 1) + 1, break(k) - 1)]

\* '\n'.join(lines)
JoinLines(lines) ==
    Flatten([k \in 1..(2 * Len(lines) - 1) |->
                IF k % 2 = 1 THEN lines[(k + 1) \div 2] ELSE <<"\n">>],
            1, 2 * Len(lines) - 1)

\* len(text.split()): the number of maximal runs of non-whitespace characters
WordCount(text) ==
    Cardinality({i \in 1..Len(text) :
                    /\ text[i] \notin Whitespace
                    /\ (i = 1 \/ text[i - 1] \in Whitespace)})

\* a character of the source that is not ASCII is written as its name
Bullet == "<bullet>"
(***************************************************************************)
(* SemanticTrainingEngine                                                  *)
(***************************************************************************)
similarity_threshold == 65
fuzzy_match_threshold == 70
\* the keyword tier accepts jaccard >= 0.3, i.e. 10 * num >= KeywordThresholdTenths * den
KeywordThresholdTenths == 3

stop_words ==
    {Chars(w) : w \in
        {"the", "a", "an", "and", "or", "but", "in", "on", "at", "to",
         "for", "of", "with", "by", "is", "are", "was", "were", "can",
         "should", "would", "could", "do", "does", "did", "how",
         "what", "when", "where", "why", "who", "which"}}

\* _extract_keywords: re.sub(r'[^\w\s]', ' ', text.lower()), split, filter, set
ExtractKeywords(text) ==
    LET low   == Lower(text)
        clean == [i \in 1..Len(low) |->
                    IF IsWordChar(low[i]) \/ low[i] \in Whitespace THEN low[i] ELSE " "]
    IN  {w \in Range(Split(clean)) : Len(w) > 2 /\ w \notin stop_words}

\* _is_duplicate_question that finds no question in the database
IsDuplicateQuestion_FindsNone(db, question) == FALSE

\* _is_duplicate_question comparing the stripped texts without lower-casing
IsDuplicateQuestion_CaseSensitive(db, question) ==
    \E i \in 1..Len(db) : Strip(db[i].question) = Strip(question)

\* _is_duplicate_question
IsDuplicateQuestion(db, question) ==
    \E i \in 1..Len(db) : Strip(Lower(db[i].question)) = Strip(Lower(question))

\* the loop of add_qa_pairs over the batch; returns the grown database
RECURSIVE AddLoop(_, _)
AddLoop(db, batch) ==
    IF batch = <<>> THEN db
    ELSE LET question == Strip(Head(batch).question)
             answer   == Strip(Head(batch).answer)
             new_qa   == [id       |-> Len(db),
                          question |-> question,
                          answer   |-> answer,
                          category |-> Head(batch).category,
                          keywords |-> ExtractKeywords(question)]
         IN  IF question # <<>> /\ answer # <<>> /\ ~IsDuplicateQuestion(db, question)
             THEN AddLoop(Append(db, new_qa), Tail(batch))
             ELSE AddLoop(db, Tail(batch))

\* embedding_model.encode(questions): one vector per question, here the
\* text the vector was computed from
Encode(db) == [i \in 1..Len(db) |-> db[i].question]

\* a file that does not exist, one that cannot be parsed, one holding data
NoFile == [kind |-> "none", data |-> <<>>]
Corrupt == [kind |-> "corrupt", data |-> <<>>]
FileOf(data) == [kind |-> "ok", data |-> data]

\* outcomes of open(...,'wb') + pickle.dump and of open(...,'w') + json.dump
WriteOutcomes == {"ok", "open_fails", "dump_fails"}

\* _regenerate_embeddings; returns the new in-memory list and cache file
RegenerateEmbeddings(db, model, cache, encodeOk, write) ==
    IF db = <<>> \/ ~model
    THEN [emb |-> <<>>, cache |-> cache]
    ELSE IF ~encodeOk
         THEN [emb |-> <<>>, cache |-> cache]
         ELSE CASE write = "ok"         -> [emb |-> Encode(db), cache |-> FileOf(Encode(db))]
                [] write = "open_fails" -> [emb |-> <<>>, cache |-> cache]
                [] write = "dump_fails" -> [emb |-> <<>>, cache |-> Corrupt]

\* _save_qa_database; returns the new database file
SaveQADatabase(db, file, write) ==
    CASE write = "ok"         -> FileOf(db)
      [] write = "open_fails" -> file
      [] write = "dump_fails" -> Corrupt

\* _load_qa_database
LoadQADatabase(file, readOk) ==
    IF file = NoFile THEN <<>>
    ELSE IF file = Corrupt \/ ~readOk THEN <<>>
    ELSE file.data

\* _load_embeddings that keeps whatever list the cache file holds
LoadEmbeddings_TrustsCache(db, model, cache, readOk, encodeOk, write) ==
    IF cache # NoFile /\ db # <<>>
    THEN IF cache = Corrupt \/ ~readOk
         THEN RegenerateEmbeddings(db, model, cache, encodeOk, write)
         ELSE [emb |-> cache.data, cache |-> cache]
    ELSE RegenerateEmbeddings(db, model, cache, encodeOk, write)

\* _load_embeddings; returns the new in-memory list and cache file
LoadEmbeddings(db, model, cache, readOk, encodeOk, write) ==
    IF cache # NoFile /\ db # <<>>
    THEN IF cache = Corrupt \/ ~readOk
         THEN RegenerateEmbeddings(db, model, cache, encodeOk, write)
         ELSE IF Len(cache.data) # Len(db)
              THEN RegenerateEmbeddings(db, model, cache, encodeOk, write)
              ELSE [emb |-> cache.data, cache |-> cache]
    ELSE RegenerateEmbeddings(db, model, cache, encodeOk, write)


\* _calculate_confidence of the score num/den
CalculateConfidence(num, den) ==
    IF 10 * num >= 9 * den THEN "very_high"
    ELSE IF 10 * num >= 8 * den THEN "high"
    ELSE IF 10 * num >= 7 * den THEN "medium"
    ELSE IF 10 * num >= 6 * den THEN "low"
    ELSE "very_low"

NoMatch == [match_type |-> "none"]

MatchResult(qa, num, den, type, confidence) ==
    [answer           |-> qa.answer,
     matched_question |-> qa.question,
     similarity_score |-> [num |-> num, den |-> den],
     match_type       |-> type,
     confidence       |-> confidence,
     qa_id            |-> qa.id]

\* an argmax that returns the last index holding the maximum
ArgMax_LastMaximum(s) ==
    CHOOSE i \in 1..Len(s) :
        /\ \A j \in 1..Len(s) : s[j] <= s[i]
        /\ \A j \in (i + 1)..Len(s) : s[j] < s[i]

\* np.argmax: the first index holding the maximum
ArgMax(s) ==
    CHOOSE i \in 1..Len(s) :
        /\ \A j \in 1..Len(s) : s[j] <= s[i]
        /\ \A j \in 1..(i - 1) : s[j] < s[i]

\* difflib: the length of the common run of a from i and b from j
RECURSIVE CommonRun(_, _, _, _)
CommonRun(a, b, i, j) ==
    IF i > Len(a) \/ j > Len(b) \/ a[i] # b[j] THEN 0
    ELSE 1 + CommonRun(a, b, i + 1, j + 1)

\* SequenceMatcher.find_longest_match without junk: the longest common
\* block, the one starting earliest in a, then earliest in b
LongestMatch(a, b) ==
    LET blocks == {[i |-> i, j |-> j, k |-> CommonRun(a, b, i, j)] :
                      i \in 1..Len(a), j \in 1..Len(b)}
    IN  CHOOSE m \in blocks :
            \A o \in blocks :
                \/ o.k < m.k
                \/ o.k = m.k /\ (m.i < o.i \/ (m.i = o.i /\ m.j <= o.j))

\* SequenceMatcher.get_matching_blocks: the number of matched characters
RECURSIVE MatchedChars(_, _)
MatchedChars(a, b) ==
    IF a = <<>> \/ b = <<>> THEN 0
    ELSE LET m == LongestMatch(a, b)
         IN  IF m.k = 0 THEN 0
             ELSE m.k + MatchedChars(SubSeq(a, 1, m.i - 1), SubSeq(b, 1, m.j - 1))
                      + MatchedChars(SubSeq(a, m.i + m.k, Len(a)),
                                     SubSeq(b, m.j + m.k, Len(b)))

\* SequenceMatcher(None, a, b).ratio() as the fraction 2*M/T (1.0 when both are empty)
SequenceRatio(a, b) ==
    IF Len(a) + Len(b) = 0 THEN [num |-> 1, den |-> 1]
    ELSE [num |-> 2 * MatchedChars(a, b), den |-> Len(a) + Len(b)]

\* the loop of _fuzzy_match_question from record i on; the best ratio is
\* the fraction num/den, 0.0 at the start
RECURSIVE FuzzyLoop(_, _, _, _, _, _)
FuzzyLoop(db, user_question_lower, i, num, den, best_idx) ==
    IF i > Len(db) THEN [num |-> num, den |-> den, idx |-> best_idx]
    ELSE LET ratio == SequenceRatio(user_question_lower, Lower(db[i].question))
         IN  IF ratio.num * den > num * ratio.den
             THEN FuzzyLoop(db, user_question_lower, i + 1, ratio.num, ratio.den, i)
             ELSE FuzzyLoop(db, user_question_lower, i + 1, num, den, best_idx)

\* _fuzzy_match_question
FuzzyMatchQuestion(db, user_question) ==
    LET best == FuzzyLoop(db, Lower(user_question), 1, 0, 1, 0)
    IN  IF 100 * best.num >= fuzzy_match_threshold * best.den
        THEN MatchResult(db[best.idx], best.num, best.den, "fuzzy",
                         CalculateConfidence(best.num, best.den))
        ELSE NoMatch

\* the loop of _keyword_match_question from record i on; the best score
\* is the fraction num/den, 0/1 at the start
RECURSIVE KeywordLoop(_, _, _, _, _, _)
KeywordLoop(db, user_keywords, i, num, den, best_idx) ==
    IF i > Len(db) THEN [num |-> num, den |-> den, idx |-> best_idx]
    ELSE LET qa_keywords  == db[i].keywords
             intersection == user_keywords \cap qa_keywords
             union        == user_keywords \cup qa_keywords
         IN  IF qa_keywords # {} /\ union # {}
                /\ Cardinality(intersection) * den > num * Cardinality(union)
             THEN KeywordLoop(db, user_keywords, i + 1,
                              Cardinality(intersection), Cardinality(union), i)
             ELSE KeywordLoop(db, user_keywords, i + 1, num, den, best_idx)

\* _keyword_match_question
KeywordMatchQuestion(db, user_question) ==
    LET user_keywords == ExtractKeywords(user_question)
        best          == KeywordLoop(db, user_keywords, 1, 0, 1, 0)
    IN  IF user_keywords = {} THEN NoMatch
        ELSE IF 10 * best.num >= KeywordThresholdTenths * best.den
             THEN MatchResult(db[best.idx], best.num, best.den, "keyword",
                              CalculateConfidence(8 * best.num, 10 * best.den))
             ELSE NoMatch

\* find_best_answer.  call.sims[i] is the cosine similarity of the question
\* to question_embeddings[i], call.encodeOk whether
\* embedding_model.encode([question]) returns.
FindBestAnswer(db, emb, model, init, call) ==
    IF ~init \/ db = <<>> \/ ~model THEN NoMatch
    ELSE LET clean_question == Strip(call.question)
         IN  IF ~call.encodeOk THEN NoMatch               \* encode raises
             ELSE IF emb = <<>> THEN NoMatch              \* cosine_similarity raises
             ELSE LET best_match_idx  == ArgMax(call.sims)
                      best_similarity == call.sims[best_match_idx]
                  IN  IF best_similarity >= similarity_threshold
                      THEN IF best_match_idx > Len(db) THEN NoMatch   \* IndexError
                           ELSE MatchResult(db[best_match_idx], best_similarity, 100,
                                            "semantic",
                                            CalculateConfidence(best_similarity, 100))
                      ELSE LET fuzzy_result == FuzzyMatchQuestion(db, clean_question)
                           IN  IF fuzzy_result # NoMatch THEN fuzzy_result
                               ELSE KeywordMatchQuestion(db, clean_question)

NoFind == [called |-> FALSE]

NoCall == [called |-> FALSE, batch |-> <<>>, repeat |-> FALSE, changed |-> FALSE]

(***************************************************************************)
(* Inputs of the engine operations                                         *)
(***************************************************************************)
Q_UpiPin      == Chars("upi pin")
Q_UpiPinCased == Chars(" UPI Pin ")
Q_ResetPin    == Chars("reset pin")
Q_Blank       == Chars(" ")
U_HowReset    == Chars("how to reset")
U_ResetPin    == Chars("Reset PIN?")
U_Weather     == Chars("weather")
A_Ok          == Chars("ok")
A_No          == Chars("no ")

\* the QA pairs an ingestion batch is drawn from
QAPairs ==
    {[question |-> Q_UpiPin,      answer |-> A_Ok,    category |-> "general"],
     [question |-> Q_UpiPinCased, answer |-> A_No,    category |-> "security"],
     [question |-> Q_ResetPin,    answer |-> A_Ok,    category |-> "security"],
     [question |-> Q_Blank,       answer |-> A_Ok,    category |-> "general"],
     [question |-> U_Weather,     answer |-> Q_Blank, category |-> "general"]}

\* longest batch of one add_qa_pairs call
MaxBatch == 2

Batches == UNION {[1..n -> QAPairs] : n \in 0..MaxBatch}

\* ingestion of one pair per call, as train_custom_qa.py does
SingleBatches == {<<pair>> : pair \in QAPairs}

\* records that tie: 'upi pn' is as close to 'upi pin' as to 'upi pan', and
\* 'pin' shares its one keyword with 'upi pin' and with 'reset pin'
Q_UpiPan == Chars("upi pan")
U_UpiPn  == Chars("upi pn")
U_Pin    == Chars("pin")

TiePairs ==
    {[question |-> Q_UpiPin,   answer |-> A_Ok, category |-> "general"],
     [question |-> Q_UpiPan,   answer |-> A_No, category |-> "general"],
     [question |-> Q_ResetPin, answer |-> A_Ok, category |-> "security"]}

TieCalls(db, emb) ==
    [called   : {TRUE},
     question : {U_UpiPn, U_Pin, U_Weather},
     sims     : [1..Len(emb) -> {64, 90}],
     encodeOk : {TRUE}]

\* the questions find_best_answer is asked
UserQuestions == {Q_UpiPin, U_ResetPin, U_HowReset, U_Weather}

\* cosine similarities the embedding model may report
SimValues == {64, 65, 90}

FindCalls(db, emb) ==
    [called   : {TRUE},
     question : UserQuestions,
     sims     : [1..Len(emb) -> SimValues],
     encodeOk : BOOLEAN]

(***************************************************************************)
(* Engine operations                                                       *)
(***************************************************************************)
\* __init__ of a fresh process; the two files are what earlier runs left
EngineInit ==
    /\ qa_database = <<>>
    /\ question_embeddings = <<>>
    /\ embedding_model = FALSE
    /\ is_initialized = FALSE
    /\ qa_database_file = NoFile
    /\ embedding_cache_file = NoFile
    /\ last_op = "construct"
    /\ add_call = NoCall
    /\ find_call = NoFind
    /\ find_result = NoMatch

\* initialize()
Initialize(modelOk, dbReadOk, cacheReadOk, encodeOk, write) ==
    /\ IF ~modelOk
       THEN UNCHANGED <<qa_database, question_embeddings, embedding_model,
                        is_initialized, embedding_cache_file>>
       ELSE LET db     == LoadQADatabase(qa_database_file, dbReadOk)
                loaded == LoadEmbeddings(db, TRUE, embedding_cache_file,
                                         cacheReadOk, encodeOk, write)
            IN  /\ embedding_model' = TRUE
                /\ qa_database' = db
                /\ question_embeddings' = loaded.emb
                /\ embedding_cache_file' = loaded.cache
                /\ is_initialized' = TRUE
    /\ last_op' = "initialize"
    /\ add_call' = NoCall
    /\ find_call' = NoFind
    /\ find_result' = NoMatch
    /\ UNCHANGED qa_database_file

\* add_qa_pairs(batch)
AddQAPairs(batch, save, encodeOk, write) ==
    LET db          == AddLoop(qa_database, batch)
        added_count == Len(db) - Len(qa_database)
        regen       == RegenerateEmbeddings(db, embedding_model, embedding_cache_file,
                                            encodeOk, write)
    IN  /\ qa_database' = db
        /\ IF added_count > 0
           THEN /\ qa_database_file' = SaveQADatabase(db, qa_database_file, save)
                /\ question_embeddings' = regen.emb
                /\ embedding_cache_file' = regen.cache
           ELSE UNCHANGED <<qa_database_file, question_embeddings, embedding_cache_file>>
        /\ last_op' = "add_qa_pairs"
        /\ find_call' = NoFind
        /\ find_result' = NoMatch
        /\ UNCHANGED <<embedding_model, is_initialized>>

\* find_best_answer(question)
FindBestAnswerCall(call) ==
    /\ find_call' = call
    /\ find_result' = FindBestAnswer(qa_database, question_embeddings,
                                     embedding_model, is_initialized, call)
    /\ last_op' = "find_best_answer"
    /\ UNCHANGED <<qa_database, question_embeddings, embedding_model, is_initialized,
                   qa_database_file, embedding_cache_file, add_call>>

\* the process stops and a new one is constructed; only the files survive
Restart ==
    /\ last_op # "construct"
    /\ qa_database' = <<>>
    /\ question_embeddings' = <<>>
    /\ embedding_model' = FALSE
    /\ is_initialized' = FALSE
    /\ last_op' = "construct"
    /\ add_call' = NoCall
    /\ find_call' = NoFind
    /\ find_result' = NoMatch
    /\ UNCHANGED <<qa_database_file, embedding_cache_file>>

(***************************************************************************)
(* add_qa_pairs and find_best_answer of the one semantic_engine object run *)
(* by two threads.  Neither method takes a lock and the coroutines they    *)
(* await never suspend, so a thread runs one statement in one step.  The   *)
(* libraries and the file system do not fail here.                         *)
(***************************************************************************)
\* add_qa_pairs calls made in one run
MaxIngests == 2

IngestIdle == [batch |-> <<>>, added_count |-> 0, calls |-> 0, versions |-> <<>>]

ResolverIdle ==
    [question |-> <<>>, best_match_idx |-> 0, best_similarity |-> 0,
     seen_embeddings |-> <<>>, seen_records |-> <<>>, result |-> NoMatch]

SwapInit ==
    /\ ingest_pc = "idle"
    /\ ingest_frame = IngestIdle
    /\ resolver_pc = "idle"
    /\ resolver_frame = ResolverIdle

\* initialize() at start-up, before any request or ingestion
LoadStore ==
    /\ last_op = "construct"
    /\ Initialize(TRUE, TRUE, TRUE, TRUE, "ok")
    /\ ingest_frame' = [ingest_frame EXCEPT !.versions = <<qa_database'>>]
    /\ UNCHANGED <<ingest_pc, resolver_pc, resolver_frame>>

\* add_qa_pairs(batch) is entered: `added_count = 0`
CallAddQAPairs(batch) ==
    /\ is_initialized
    /\ ingest_pc = "idle"
    /\ ingest_frame.calls < MaxIngests
    /\ ingest_pc' = "loop"
    /\ ingest_frame' = [ingest_frame EXCEPT !.batch = batch, !.added_count = 0,
                                            !.calls = @ + 1]
    /\ UNCHANGED <<engineVars, resolver_pc, resolver_frame>>

\* one round of `for qa_pair in qa_pairs`: the record is appended to the
\* list the resolver reads
IngestAppend ==
    /\ ingest_pc = "loop"
    /\ ingest_frame.batch # <<>>
    /\ LET db == AddLoop(qa_database, <<Head(ingest_frame.batch)>>)
       IN  /\ qa_database' = db
           /\ ingest_frame' = [ingest_frame EXCEPT
                                  !.batch = Tail(@),
                                  !.added_count = @ + Len(db) - Len(qa_database)]
    /\ UNCHANGED <<question_embeddings, embedding_model, is_initialized,
                   qa_database_file, embedding_cache_file, last_op, add_call,
                   find_call, find_result, ingest_pc, resolver_pc, resolver_frame>>

\* the loop ends: `if added_count > 0`
IngestLoopEnds ==
    /\ ingest_pc = "loop"
    /\ ingest_frame.batch = <<>>
    /\ ingest_pc' = IF ingest_frame.added_count > 0 THEN "save" ELSE "return"
    /\ UNCHANGED <<engineVars, ingest_frame, resolver_pc, resolver_frame>>

\* `await self._save_qa_database()`
IngestSave ==
    /\ ingest_pc = "save"
    /\ qa_database_file' = SaveQADatabase(qa_database, qa_database_file, "ok")
    /\ ingest_pc' = "regenerate"
    /\ UNCHANGED <<qa_database, question_embeddings, embedding_model, is_initialized,
                   embedding_cache_file, last_op, add_call, find_call, find_result,
                   ingest_frame, resolver_pc, resolver_frame>>

\* `await self._regenerate_embeddings()`: the new list replaces the old one
IngestRegenerate ==
    /\ ingest_pc = "regenerate"
    /\ LET regen == RegenerateEmbeddings(qa_database, embedding_model,
                                         embedding_cache_file, TRUE, "ok")
       IN  /\ question_embeddings' = regen.emb
           /\ embedding_cache_file' = regen.cache
    /\ ingest_pc' = "return"
    /\ UNCHANGED <<qa_database, embedding_model, is_initialized, qa_database_file,
                   last_op, add_call, find_call, find_result,
                   ingest_frame, resolver_pc, resolver_frame>>

\* `return True`
IngestReturn ==
    /\ ingest_pc = "return"
    /\ ingest_pc' = "idle"
    /\ ingest_frame' = [ingest_frame EXCEPT !.versions = Append(@, qa_database)]
    /\ UNCHANGED <<engineVars, resolver_pc, resolver_frame>>

\* find_best_answer(question) is entered
CallFindBestAnswer(question) ==
    /\ resolver_pc = "idle"
    /\ resolver_pc' = "guard"
    /\ resolver_frame' = [ResolverIdle EXCEPT !.question = question]
    /\ UNCHANGED <<engineVars, ingest_pc, ingest_frame>>

\* `if not self.is_initialized or not self.qa_database or not self.embedding_model`
ResolverGuard ==
    /\ resolver_pc = "guard"
    /\ resolver_pc' = IF ~is_initialized \/ qa_database = <<>> \/ ~embedding_model
                      THEN "unserved" ELSE "similarity"
    /\ UNCHANGED <<engineVars, ingest_pc, ingest_frame, resolver_frame>>

\* encode, `cosine_similarity(user_embedding, self.question_embeddings)`,
\* argmax and the threshold test; sims are the similarities the model gives
ResolverSimilarity(sims) ==
    /\ resolver_pc = "similarity"
    /\ IF question_embeddings = <<>>
       THEN /\ resolver_pc' = "done"                      \* cosine_similarity raises
            /\ resolver_frame' = [resolver_frame EXCEPT
                                     !.seen_embeddings = question_embeddings,
                                     !.seen_records = qa_database]
       ELSE /\ resolver_frame' = [resolver_frame EXCEPT
                                     !.seen_embeddings = question_embeddings,
                                     !.best_match_idx = ArgMax(sims),
                                     !.best_similarity = sims[ArgMax(sims)]]
            /\ resolver_pc' = IF sims[ArgMax(sims)] >= similarity_threshold
                              THEN "pick" ELSE "fall_back"
    /\ UNCHANGED <<engineVars, ingest_pc, ingest_frame>>

\* `best_qa = self.qa_database[best_match_idx]` and the returned dict
ResolverPick ==
    /\ resolver_pc = "pick"
    /\ resolver_frame' = [resolver_frame EXCEPT
                             !.seen_records = qa_database,
                             !.result = MatchResult(qa_database[resolver_frame.best_match_idx],
                                            resolver_frame.best_similarity, 100, "semantic",
                                            CalculateConfidence(resolver_frame.best_similarity, 100))]
    /\ resolver_pc' = "done"
    /\ UNCHANGED <<engineVars, ingest_pc, ingest_frame>>

\* _fuzzy_match_question, then _keyword_match_question, over self.qa_database
ResolverFallBack ==
    /\ resolver_pc = "fall_back"
    /\ LET clean_question == Strip(resolver_frame.question)
           fuzzy_result   == FuzzyMatchQuestion(qa_database, clean_question)
       IN  resolver_frame' = [resolver_frame EXCEPT
                                !.seen_records = qa_database,
                                !.result = IF fuzzy_result # NoMatch THEN fuzzy_result
                                           ELSE KeywordMatchQuestion(qa_database, clean_question)]
    /\ resolver_pc' = "done"
    /\ UNCHANGED <<engineVars, ingest_pc, ingest_frame>>

\* the batches the ingesting thread adds
SwapBatches == {<<pair>> : pair \in {p \in QAPairs : p.question \in {Q_UpiPin, Q_ResetPin}}}
                  \cup {<<[question |-> Q_UpiPin, answer |-> A_Ok, category |-> "general"],
                          [question |-> Q_ResetPin, answer |-> A_Ok, category |-> "security"]>>}

(***************************************************************************)
(* AdvancedAIService.classify_query                                        *)
(***************************************************************************)
\* query_patterns, in registration order
query_patterns ==
    <<
     [category |-> "greeting", patterns |-> <<
        Pattern("^(hi|hello|hey|good\\s+(morning|afternoon|evening)|greetings)\\b",
            Cat(<<Bol, Alt(<<Lit("hi"), Lit("hello"), Lit("hey"),
            Cat(<<Lit("good"), WS1, Alt(<<Lit("morning"), Lit("afternoon"),
            Lit("evening")>>)>>), Lit("greetings")>>), WordB>>)),
        Pattern("how\\s+(are\\s+you|is\\s+it\\s+going)",
            Cat(<<Lit("how"), WS1, Alt(<<Cat(<<Lit("are"), WS1, Lit("you")>>),
            Cat(<<Lit("is"), WS1, Lit("it"), WS1, Lit("going")>>)>>)>>)),
        Pattern("what\\'?s\\s+up",
            Cat(<<Lit("what"), Opt(Lit("'")), Lit("s"), WS1, Lit("up")>>)),
        Pattern("^(sup|yo)\\b",
            Cat(<<Bol, Alt(<<Lit("sup"), Lit("yo")>>), WordB>>)),
        Pattern("nice\\s+to\\s+meet\\s+you",
            Cat(<<Lit("nice"), WS1, Lit("to"), WS1, Lit("meet"), WS1,
            Lit("you")>>))>>],
     [category |-> "casual_conversation", patterns |-> <<
        Pattern("how\\s+are\\s+you\\s+(doing|today)",
            Cat(<<Lit("how"), WS1, Lit("are"), WS1, Lit("you"), WS1,
            Alt(<<Lit("doing"), Lit("today")>>)>>)),
        Pattern("what.*your.*name",
            Cat(<<Lit("what"), AnyRun, Lit("your"), AnyRun, Lit("name")>>)),
        Pattern("who\\s+are\\s+you",
            Cat(<<Lit("who"), WS1, Lit("are"), WS1, Lit("you")>>)),
        Pattern("tell\\s+me\\s+about\\s+yourself",
            Cat(<<Lit("tell"), WS1, Lit("me"), WS1, Lit("about"), WS1,
            Lit("yourself")>>)),
        Pattern("what\\s+do\\s+you\\s+do",
            Cat(<<Lit("what"), WS1, Lit("do"), WS1, Lit("you"), WS1,
            Lit("do")>>)),
        Pattern("can\\s+you\\s+help\\s+me",
            Cat(<<Lit("can"), WS1, Lit("you"), WS1, Lit("help"), WS1,
            Lit("me")>>))>>],
     [category |-> "emotional_distress", patterns |-> <<
        Pattern("(i|i\\'m|im)\\s+(scared|afraid|worried|nervous|panicking|stressed)",
            Cat(<<Alt(<<Lit("i"), Lit("i'm"), Lit("im")>>), WS1,
            Alt(<<Lit("scared"), Lit("afraid"), Lit("worried"), Lit("nervous"),
            Lit("panicking"), Lit("stressed")>>)>>)),
        Pattern("(fraud|scam).*happened.*me",
            Cat(<<Alt(<<Lit("fraud"), Lit("scam")>>), AnyRun, Lit("happened"),
            AnyRun, Lit("me")>>)),
        Pattern("(lost|stolen).*money",
            Cat(<<Alt(<<Lit("lost"), Lit("stolen")>>), AnyRun, Lit("money")>>)),
        Pattern("(someone|they)\\s+(cheated|scammed|fooled)\\s+me",
            Cat(<<Alt(<<Lit("someone"), Lit("they")>>), WS1,
            Alt(<<Lit("cheated"), Lit("scammed"), Lit("fooled")>>), WS1,
            Lit("me")>>)),
        Pattern("(i|my)\\s+(account|card|upi)\\s+(hacked|compromised)",
            Cat(<<Alt(<<Lit("i"), Lit("my")>>), WS1, Alt(<<Lit("account"),
            Lit("card"), Lit("upi")>>), WS1, Alt(<<Lit("hacked"),
            Lit("compromised")>>)>>)),
        Pattern("(feel|feeling)\\s+(anxious|depressed|helpless|devastated)",
            Cat(<<Alt(<<Lit("feel"), Lit("feeling")>>), WS1,
            Alt(<<Lit("anxious"), Lit("depressed"), Lit("helpless"),
            Lit("devastated")>>)>>)),
        Pattern("don\\'t\\s+know\\s+what\\s+to\\s+do",
            Cat(<<Lit("don't"), WS1, Lit("know"), WS1, Lit("what"), WS1,
            Lit("to"), WS1, Lit("do")>>)),
        Pattern("(help|support).*me.*please",
            Cat(<<Alt(<<Lit("help"), Lit("support")>>), AnyRun, Lit("me"),
            AnyRun, Lit("please")>>)),
        Pattern("(victim|target)\\s+of\\s+(fraud|scam)",
            Cat(<<Alt(<<Lit("victim"), Lit("target")>>), WS1, Lit("of"), WS1,
            Alt(<<Lit("fraud"), Lit("scam")>>)>>))>>],
     [category |-> "comfort_seeking", patterns |-> <<
        Pattern("(everything|will\\s+be|going\\s+to\\s+be)\\s+(okay|alright|fine)",
            Cat(<<Alt(<<Lit("everything"), Cat(<<Lit("will"), WS1,
            Lit("be")>>), Cat(<<Lit("going"), WS1, Lit("to"), WS1,
            Lit("be")>>)>>), WS1, Alt(<<Lit("okay"), Lit("alright"),
            Lit("fine")>>)>>)),
        Pattern("(what|how)\\s+(should|do)\\s+i\\s+do\\s+now",
            Cat(<<Alt(<<Lit("what"), Lit("how")>>), WS1, Alt(<<Lit("should"),
            Lit("do")>>), WS1, Lit("i"), WS1, Lit("do"), WS1, Lit("now")>>)),
        Pattern("(is|am)\\s+i\\s+(safe|secure|protected)",
            Cat(<<Alt(<<Lit("is"), Lit("am")>>), WS1, Lit("i"), WS1,
            Alt(<<Lit("safe"), Lit("secure"), Lit("protected")>>)>>)),
        Pattern("(can|will)\\s+i\\s+(recover|get).*money\\s+back",
            Cat(<<Alt(<<Lit("can"), Lit("will")>>), WS1, Lit("i"), WS1,
            Alt(<<Lit("recover"), Lit("get")>>), AnyRun, Lit("money"), WS1,
            Lit("back")>>)),
        Pattern("(how|when)\\s+(long|much).*take.*recover",
            Cat(<<Alt(<<Lit("how"), Lit("when")>>), WS1, Alt(<<Lit("long"),
            Lit("much")>>), AnyRun, Lit("take"), AnyRun, Lit("recover")>>))>>],
     [category |-> "rbi_specific", patterns |-> <<
        Pattern("rbi\\s+(guideline|regulation|rule|policy)",
            Cat(<<Lit("rbi"), WS1, Alt(<<Lit("guideline"), Lit("regulation"),
            Lit("rule"), Lit("policy")>>)>>)),
        Pattern("reserve\\s+bank.*guideline",
            Cat(<<Lit("reserve"), WS1, Lit("bank"), AnyRun,
            Lit("guideline")>>)),
        Pattern("central\\s+bank.*regulation",
            Cat(<<Lit("central"), WS1, Lit("bank"), AnyRun,
            Lit("regulation")>>)),
        Pattern("rbi.*transaction\\s+limit",
            Cat(<<Lit("rbi"), AnyRun, Lit("transaction"), WS1, Lit("limit")>>)),
        Pattern("what.*rbi.*says?",
            Cat(<<Lit("what"), AnyRun, Lit("rbi"), AnyRun, Lit("say"),
            Opt(Lit("s"))>>))>>],
     [category |-> "fraud_types", patterns |-> <<
        Pattern("types?\\s+of\\s+fraud",
            Cat(<<Lit("type"), Opt(Lit("s")), WS1, Lit("of"), WS1,
            Lit("fraud")>>)),
        Pattern("common\\s+fraud", Cat(<<Lit("common"), WS1, Lit("fraud")>>)),
        Pattern("fraud\\s+(pattern|method)",
            Cat(<<Lit("fraud"), WS1, Alt(<<Lit("pattern"), Lit("method")>>)>>)),
        Pattern("how.*fraud.*work",
            Cat(<<Lit("how"), AnyRun, Lit("fraud"), AnyRun, Lit("work")>>)),
        Pattern("latest.*fraud.*trend",
            Cat(<<Lit("latest"), AnyRun, Lit("fraud"), AnyRun, Lit("trend")>>))>>],
     [category |-> "security_measures", patterns |-> <<
        Pattern("security\\s+(measure|tip|practice)",
            Cat(<<Lit("security"), WS1, Alt(<<Lit("measure"), Lit("tip"),
            Lit("practice")>>)>>)),
        Pattern("how.*secure.*payment",
            Cat(<<Lit("how"), AnyRun, Lit("secure"), AnyRun, Lit("payment")>>)),
        Pattern("protect.*upi.*account",
            Cat(<<Lit("protect"), AnyRun, Lit("upi"), AnyRun,
            Lit("account")>>)),
        Pattern("safety.*guideline",
            Cat(<<Lit("safety"), AnyRun, Lit("guideline")>>)),
        Pattern("best\\s+practice", Cat(<<Lit("best"), WS1, Lit("practice")>>))>>],
     [category |-> "emergency_help", patterns |-> <<
        Pattern("emergency.*contact",
            Cat(<<Lit("emergency"), AnyRun, Lit("contact")>>)),
        Pattern("fraud.*report", Cat(<<Lit("fraud"), AnyRun, Lit("report")>>)),
        Pattern("help.*number", Cat(<<Lit("help"), AnyRun, Lit("number")>>)),
        Pattern("complaint.*process",
            Cat(<<Lit("complaint"), AnyRun, Lit("process")>>)),
        Pattern("cyber.*crime.*helpline",
            Cat(<<Lit("cyber"), AnyRun, Lit("crime"), AnyRun,
            Lit("helpline")>>))>>],
     [category |-> "compliance", patterns |-> <<
        Pattern("compliance.*requirement",
            Cat(<<Lit("compliance"), AnyRun, Lit("requirement")>>)),
        Pattern("legal.*framework",
            Cat(<<Lit("legal"), AnyRun, Lit("framework")>>)),
        Pattern("payment.*law", Cat(<<Lit("payment"), AnyRun, Lit("law")>>)),
        Pattern("regulation.*act",
            Cat(<<Lit("regulation"), AnyRun, Lit("act")>>)),
        Pattern("kyc.*requirement",
            Cat(<<Lit("kyc"), AnyRun, Lit("requirement")>>))>>]
    >>

\* important_keywords of classify_query, in list order
important_keywords ==
    <<
     "rbi", "guideline", "regulation", "fraud", "security", "upi",
     "payment", "scam", "emergency", "help", "report", "compliance",
     "law", "act", "transaction", "limit", "kyc", "protection", "hi",
     "hello", "hey", "greetings", "how", "are", "you", "scared",
     "afraid", "worried", "nervous", "panicking", "stressed", "lost",
     "stolen", "money", "hacked", "compromised", "victim", "comfort",
     "support", "okay", "safe", "secure", "recover"
    >>

\* confidence of a pattern hit and of a keyword hit
PatternConfidence == 80
KeywordConfidence == 60

\* the (category, pattern) pairs in the order the two nested loops visit them
RECURSIVE PatternsFrom(_)
PatternsFrom(c) ==
    IF c > Len(query_patterns) THEN <<>>
    ELSE [p \in 1..Len(query_patterns[c].patterns) |->
            [category |-> query_patterns[c].category,
             pattern  |-> query_patterns[c].patterns[p]]] \o PatternsFrom(c + 1)

RegisteredPatterns == PatternsFrom(1)

\* the pairs whose re.search succeeds, in visiting order
PatternHits(query_lower) ==
    SelectSeq(RegisteredPatterns, LAMBDA e : Search(e.pattern, query_lower))

\* the pattern loop body with `>=` for `>`: a later category takes over
PatternStep_LaterWins(acc, hit) ==
    LET confidence == PatternConfidence
        wins       == confidence >= acc.max_confidence
    IN  [max_confidence   |-> IF wins THEN confidence ELSE acc.max_confidence,
         primary_category |-> IF wins THEN hit.category ELSE acc.primary_category,
         matched_patterns |-> Append(acc.matched_patterns, hit.pattern.src),
         keywords         |-> acc.keywords]

\* the body of the pattern loop at a pattern that matches
PatternStep(acc, hit) ==
    LET confidence == PatternConfidence
        wins       == confidence > acc.max_confidence
    IN  [max_confidence   |-> IF wins THEN confidence ELSE acc.max_confidence,
         primary_category |-> IF wins THEN hit.category ELSE acc.primary_category,
         matched_patterns |-> Append(acc.matched_patterns, hit.pattern.src),
         keywords         |-> acc.keywords]

\* the pattern loop; a pattern that does not match leaves everything as it is
RECURSIVE PatternLoop(_, _)
PatternLoop(acc, hits) ==
    IF hits = <<>> THEN acc
    ELSE PatternLoop(PatternStep(acc, Head(hits)), Tail(hits))

\* the keywords the text contains, in list order
KeywordHits(query_lower) ==
    SelectSeq(important_keywords, LAMBDA keyword : Contains(query_lower, Chars(keyword)))

\* the keyword loop body without its `max_confidence == 0.0` test
KeywordStep_Overrides(acc, keyword) ==
    [acc EXCEPT !.keywords = Append(@, keyword),
                !.max_confidence = KeywordConfidence]

\* the body of the keyword loop at a keyword the text contains
KeywordStep(acc, keyword) ==
    [acc EXCEPT !.keywords = Append(@, keyword),
                !.max_confidence = IF @ = 0 THEN KeywordConfidence ELSE @]

\* the keyword loop
RECURSIVE ImportantKeywordLoop(_, _)
ImportantKeywordLoop(acc, hits) ==
    IF hits = <<>> THEN acc
    ELSE ImportantKeywordLoop(KeywordStep(acc, Head(hits)), Tail(hits))

\* classify_query starting from the keyword confidence instead of 0.0
ClassifyQuery_StartsAtKeywordConfidence(text) ==
    LET query_lower == Lower(text)
        start   == [max_confidence |-> KeywordConfidence, primary_category |-> "general",
                    matched_patterns |-> <<>>, keywords |-> <<>>]
        matched == PatternLoop(start, PatternHits(query_lower))
        final   == ImportantKeywordLoop(matched, KeywordHits(query_lower))
    IN  [primary_category |-> final.primary_category,
         confidence       |-> final.max_confidence,
         matched_patterns |-> final.matched_patterns,
         keywords         |-> final.keywords]

\* classify_query(query)
ClassifyQuery(text) ==
    LET query_lower == Lower(text)
        start   == [max_confidence |-> 0, primary_category |-> "general",
                    matched_patterns |-> <<>>, keywords |-> <<>>]
        matched == PatternLoop(start, PatternHits(query_lower))
        final   == ImportantKeywordLoop(matched, KeywordHits(query_lower))
    IN  [primary_category |-> final.primary_category,
         confidence       |-> final.max_confidence,
         matched_patterns |-> final.matched_patterns,
         keywords         |-> final.keywords]

\* no classification has been made
NoClassification ==
    [primary_category |-> "unset", confidence |-> 0,
     matched_patterns |-> <<>>, keywords |-> <<>>]

\* the words the classified texts are made of
QueryWords ==
    {Chars(w) : w \in {"Hello", "there!", "how are you", "doing",
                       "fraud", "report", "weather"}}

\* most words in one classified text
MaxQueryWords == 3

Queries == {Join(ws) : ws \in UNION {[1..n -> QueryWords] : n \in 1..MaxQueryWords}}

\* the classifier before any call
ClassifierIdle ==
    /\ query = <<>>
    /\ classification = NoClassification

\* a text arrives
ClassifierInit ==
    /\ query \in Queries
    /\ classification = NoClassification

\* classify_query(query) returns
ClassifyQueryCall ==
    /\ classification = NoClassification
    /\ classification' = ClassifyQuery(query)
    /\ UNCHANGED query

(***************************************************************************)
(* EnhancedEmotionalIntelligence: analyze_text_emotions                    *)
(***************************************************************************)
\* emotion_patterns, in registration order
emotion_patterns ==
    <<
     [emotion |-> "fear",
      keywords |->
        <<"scared", "afraid", "terrified", "frightened", "panic", "worried",
        "nervous">>,
      phrases |-> <<
        Pattern("i\\s*am\\s*scared",
            Cat(<<Lit("i"), WS0, Lit("am"), WS0, Lit("scared")>>)),
        Pattern("so\\s*afraid", Cat(<<Lit("so"), WS0, Lit("afraid")>>)),
        Pattern("really\\s*worried",
            Cat(<<Lit("really"), WS0, Lit("worried")>>)),
        Pattern("panicking", Lit("panicking"))>>,
      intensity_indicators |->
        <<"very", "so", "extremely", "really", "completely">>],
     [emotion |-> "anger",
      keywords |->
        <<"angry", "furious", "mad", "frustrated", "irritated", "annoyed">>,
      phrases |-> <<
        Pattern("so\\s*angry", Cat(<<Lit("so"), WS0, Lit("angry")>>)),
        Pattern("really\\s*mad", Cat(<<Lit("really"), WS0, Lit("mad")>>)),
        Pattern("frustrated\\s*with",
            Cat(<<Lit("frustrated"), WS0, Lit("with")>>))>>,
      intensity_indicators |->
        <<"very", "so", "extremely", "really", "absolutely">>],
     [emotion |-> "sadness",
      keywords |->
        <<"sad", "depressed", "devastated", "heartbroken", "disappointed",
        "upset">>,
      phrases |-> <<
        Pattern("feel\\s*sad", Cat(<<Lit("feel"), WS0, Lit("sad")>>)),
        Pattern("so\\s*disappointed",
            Cat(<<Lit("so"), WS0, Lit("disappointed")>>)),
        Pattern("really\\s*upset", Cat(<<Lit("really"), WS0, Lit("upset")>>))>>,
      intensity_indicators |->
        <<"very", "so", "extremely", "deeply", "completely">>],
     [emotion |-> "anxiety",
      keywords |->
        <<"anxious", "stressed", "overwhelmed", "confused", "helpless">>,
      phrases |-> <<
        Pattern("feeling\\s*anxious",
            Cat(<<Lit("feeling"), WS0, Lit("anxious")>>)),
        Pattern("so\\s*stressed", Cat(<<Lit("so"), WS0, Lit("stressed")>>)),
        Pattern("completely\\s*lost",
            Cat(<<Lit("completely"), WS0, Lit("lost")>>))>>,
      intensity_indicators |->
        <<"very", "so", "extremely", "really", "totally">>],
     [emotion |-> "hope",
      keywords |->
        <<"hope", "optimistic", "positive", "confident", "better">>,
      phrases |-> <<
        Pattern("hope\\s*everything",
            Cat(<<Lit("hope"), WS0, Lit("everything")>>)),
        Pattern("feeling\\s*better",
            Cat(<<Lit("feeling"), WS0, Lit("better")>>)),
        Pattern("more\\s*confident",
            Cat(<<Lit("more"), WS0, Lit("confident")>>))>>,
      intensity_indicators |->
        <<"very", "much", "really", "quite", "fairly">>],
     [emotion |-> "gratitude",
      keywords |->
        <<"thank", "grateful", "appreciate", "helped", "wonderful">>,
      phrases |-> <<
        Pattern("thank\\s*you", Cat(<<Lit("thank"), WS0, Lit("you")>>)),
        Pattern("really\\s*appreciate",
            Cat(<<Lit("really"), WS0, Lit("appreciate")>>)),
        Pattern("so\\s*helpful", Cat(<<Lit("so"), WS0, Lit("helpful")>>))>>,
      intensity_indicators |->
        <<"very", "so", "really", "truly", "deeply">>]
    >>

\* urgency_patterns, in registration order
urgency_patterns ==
    <<
     [urgency |-> "high", patterns |-> <<
        Pattern("emergency", Lit("emergency")),
        Pattern("urgent", Lit("urgent")),
        Pattern("immediately", Lit("immediately")),
        Pattern("right\\s*now", Cat(<<Lit("right"), WS0, Lit("now")>>)),
        Pattern("asap", Lit("asap")),
        Pattern("can\\'t\\s*wait", Cat(<<Lit("can't"), WS0, Lit("wait")>>)),
        Pattern("happening\\s*now", Cat(<<Lit("happening"), WS0, Lit("now")>>)),
        Pattern("need\\s*help\\s*now",
            Cat(<<Lit("need"), WS0, Lit("help"), WS0, Lit("now")>>)),
        Pattern("losing\\s*money", Cat(<<Lit("losing"), WS0, Lit("money")>>)),
        Pattern("account\\s*hacked",
            Cat(<<Lit("account"), WS0, Lit("hacked")>>)),
        Pattern("fraud\\s*happening",
            Cat(<<Lit("fraud"), WS0, Lit("happening")>>))>>],
     [urgency |-> "medium", patterns |-> <<
        Pattern("soon", Lit("soon")),
        Pattern("quickly", Lit("quickly")),
        Pattern("worried", Lit("worried")),
        Pattern("concerned", Lit("concerned")),
        Pattern("need\\s*help", Cat(<<Lit("need"), WS0, Lit("help")>>)),
        Pattern("what\\s*should\\s*i\\s*do",
            Cat(<<Lit("what"), WS0, Lit("should"), WS0, Lit("i"), WS0,
            Lit("do")>>)),
        Pattern("advice", Lit("advice")),
        Pattern("guidance", Lit("guidance"))>>],
     [urgency |-> "low", patterns |-> <<
        Pattern("sometime", Lit("sometime")),
        Pattern("eventually", Lit("eventually")),
        Pattern("when\\s*possible", Cat(<<Lit("when"), WS0, Lit("possible")>>)),
        Pattern("curious", Lit("curious")),
        Pattern("wondering", Lit("wondering")),
        Pattern("interested", Lit("interested"))>>]
    >>

\* support_indicators, in registration order
support_indicators ==
    <<
     [support_type |-> "emotional", patterns |-> <<
        Pattern("scared", Lit("scared")),
        Pattern("afraid", Lit("afraid")),
        Pattern("worried", Lit("worried")),
        Pattern("sad", Lit("sad")),
        Pattern("upset", Lit("upset")),
        Pattern("devastated", Lit("devastated")),
        Pattern("feeling", Lit("feeling")),
        Pattern("emotion", Lit("emotion")),
        Pattern("comfort", Lit("comfort")),
        Pattern("support", Lit("support")),
        Pattern("help\\s*me\\s*feel",
            Cat(<<Lit("help"), WS0, Lit("me"), WS0, Lit("feel")>>))>>],
     [support_type |-> "informational", patterns |-> <<
        Pattern("what\\s*is", Cat(<<Lit("what"), WS0, Lit("is")>>)),
        Pattern("how\\s*to", Cat(<<Lit("how"), WS0, Lit("to")>>)),
        Pattern("explain", Lit("explain")),
        Pattern("understand", Lit("understand")),
        Pattern("learn", Lit("learn")),
        Pattern("information", Lit("information")),
        Pattern("details", Lit("details")),
        Pattern("guidelines", Lit("guidelines")),
        Pattern("rules", Lit("rules"))>>],
     [support_type |-> "procedural", patterns |-> <<
        Pattern("what\\s*should\\s*i\\s*do",
            Cat(<<Lit("what"), WS0, Lit("should"), WS0, Lit("i"), WS0,
            Lit("do")>>)),
        Pattern("steps", Lit("steps")),
        Pattern("process", Lit("process")),
        Pattern("how\\s*do\\s*i",
            Cat(<<Lit("how"), WS0, Lit("do"), WS0, Lit("i")>>)),
        Pattern("procedure", Lit("procedure")),
        Pattern("action", Lit("action")),
        Pattern("next", Lit("next")),
        Pattern("report", Lit("report")),
        Pattern("file", Lit("file"))>>]
    >>

\* what one keyword, one phrase pattern and one intensity indicator add to
\* the confidence of an emotion, and the cap of the stored score
KeywordScore == 30
PhraseScore == 40
IntensityScore == 20
ScoreCap == 100

Min(a, b) == IF a <= b THEN a ELSE b

\* a dict without entries
EmptyDict == [key \in {} |-> 0]

\* d[key] = value
DictSet(dict, key, value) ==
    [k \in DOMAIN dict \cup {key} |-> IF k = key THEN value ELSE dict[k]]

\* the confidence the three inner loops add up for one emotion
EmotionScore(entry, text_lower) ==
      KeywordScore * Cardinality({k \in 1..Len(entry.keywords) :
                        Contains(text_lower, Chars(entry.keywords[k]))})
    + PhraseScore * Cardinality({p \in 1..Len(entry.phrases) :
                        Search(entry.phrases[p], text_lower)})
    + IntensityScore * Cardinality({i \in 1..Len(entry.intensity_indicators) :
                        Contains(text_lower, Chars(entry.intensity_indicators[i]))})

\* the end of the loop body for one emotion: record and compare the confidence
EmotionStep(acc, emotion, confidence) ==
    IF confidence > 0
    THEN [detected_emotions |-> DictSet(acc.detected_emotions, emotion,
                                        Min(confidence, ScoreCap)),
          max_confidence    |-> IF confidence > acc.max_confidence
                                THEN confidence ELSE acc.max_confidence,
          primary_emotion   |-> IF confidence > acc.max_confidence
                                THEN emotion ELSE acc.primary_emotion]
    ELSE acc

\* for emotion, patterns in emotion_patterns.items()
RECURSIVE EmotionLoop(_, _, _)
EmotionLoop(acc, e, text_lower) ==
    IF e > Len(emotion_patterns) THEN acc
    ELSE EmotionLoop(EmotionStep(acc, emotion_patterns[e].emotion,
                                 EmotionScore(emotion_patterns[e], text_lower)),
                     e + 1, text_lower)

\* emotion_mapping of the transformer labels
emotion_mapping ==
    [joy |-> "hope", fear |-> "fear", anger |-> "anger", sadness |-> "sadness",
     disgust |-> "anger", surprise |-> "anxiety"]

\* emotion_mapping.get(label, label)
MappedEmotion(label) ==
    IF label \in DOMAIN emotion_mapping THEN emotion_mapping[label] ELSE label

\* the transformer block: classifier is what self.emotion_classifier(text) did
TransformerStep(acc, classifier) ==
    IF classifier.kind # "top" THEN acc
    ELSE LET mapped_emotion         == MappedEmotion(classifier.label)
             transformer_confidence == classifier.score
             detected               == acc.detected_emotions
         IN  [detected_emotions |->
                 DictSet(detected, mapped_emotion,
                         IF /\ mapped_emotion \in DOMAIN detected
                            /\ detected[mapped_emotion] > transformer_confidence
                         THEN detected[mapped_emotion] ELSE transformer_confidence),
              max_confidence    |-> IF transformer_confidence > acc.max_confidence
                                    THEN transformer_confidence ELSE acc.max_confidence,
              primary_emotion   |-> IF transformer_confidence > acc.max_confidence
                                    THEN mapped_emotion ELSE acc.primary_emotion]

\* the sentiment block: VADER compound, then TextBlob polarity while it is 0.0
SentimentScore(vaderLoaded, sentimentAvailable, vader, textblob) ==
    LET compound == IF vaderLoaded /\ sentimentAvailable /\ vader.kind = "score"
                    THEN vader.score ELSE 0
    IN  IF compound = 0 /\ sentimentAvailable /\ textblob.kind = "score"
        THEN textblob.score ELSE compound

\* _determine_urgency
DetermineUrgency(text_lower) ==
    LET hit(u) == \E p \in 1..Len(urgency_patterns[u].patterns) :
                      Search(urgency_patterns[u].patterns[p], text_lower)
        hits   == {u \in 1..Len(urgency_patterns) : hit(u)}
    IN  IF hits = {} THEN "low"
        ELSE urgency_patterns[CHOOSE u \in hits : \A v \in hits : u <= v].urgency

\* _determine_support_type: max(scores, key=scores.get) takes the first of
\* the highest counts
DetermineSupportType(text_lower) ==
    LET score(s) == Cardinality({p \in 1..Len(support_indicators[s].patterns) :
                        Search(support_indicators[s].patterns[p], text_lower)})
        scored   == {s \in 1..Len(support_indicators) : score(s) > 0}
        best     == CHOOSE s \in scored :
                        \A r \in scored : score(r) < score(s) \/ (score(r) = score(s) /\ s <= r)
    IN  IF scored = {} THEN "informational"
        ELSE support_indicators[best].support_type

\* _determine_response_tone with the distress test after the urgency-free one
DetermineResponseTone_UrgencyIgnored(emotion, sentiment, urgency) ==
    IF emotion \in {"fear", "anxiety", "sadness"} THEN "empathetic"
    ELSE IF emotion \in {"anger", "frustration"} THEN "calming"
    ELSE IF emotion \in {"hope", "gratitude"} THEN "encouraging"
    ELSE IF sentiment > 30 THEN "positive"
    ELSE IF sentiment < -30 THEN "supportive"
    ELSE "neutral"

\* _determine_response_tone
DetermineResponseTone(emotion, sentiment, urgency) ==
    IF emotion \in {"fear", "anxiety", "sadness"} /\ urgency = "high"
    THEN "emergency_supportive"
    ELSE IF emotion \in {"fear", "anxiety", "sadness"} THEN "empathetic"
    ELSE IF emotion \in {"anger", "frustration"} THEN "calming"
    ELSE IF emotion \in {"hope", "gratitude"} THEN "encouraging"
    ELSE IF sentiment > 30 THEN "positive"
    ELSE IF sentiment < -30 THEN "supportive"
    ELSE "neutral"

\* what of analyze_text_emotions depends on the text alone
PatternScan(text) ==
    LET text_lower == Lower(text)
    IN  [patterns     |-> EmotionLoop([detected_emotions |-> EmptyDict,
                                       max_confidence |-> 0,
                                       primary_emotion |-> "neutral"], 1, text_lower),
         urgency      |-> DetermineUrgency(text_lower),
         support_type |-> DetermineSupportType(text_lower)]

\* the reading of the outer except branch
NeutralReading ==
    [primary_emotion |-> "neutral", confidence |-> 0, secondary_emotions |-> EmptyDict,
     sentiment_score |-> 0, emotional_intensity |-> 0, urgency_level |-> "low",
     support_type_needed |-> "informational", recommended_response_tone |-> "neutral"]

\* analyze_text_emotions whose outer except branch returns what the pattern
\* scan had found
AnalysisOf_FailureKeepsPatterns(scan, lib, classifierLoaded, vaderLoaded, transformersAvailable, sentimentAvailable) ==
    LET acc == IF classifierLoaded /\ transformersAvailable /\ lib.internal = "ok"
               THEN TransformerStep(scan.patterns, lib.classifier)
               ELSE scan.patterns
        sentiment_score == IF lib.internal = "ok"
                           THEN SentimentScore(vaderLoaded, sentimentAvailable,
                                               lib.vader, lib.textblob)
                           ELSE 0
    IN  [primary_emotion           |-> acc.primary_emotion,
         confidence                |-> acc.max_confidence,
         secondary_emotions        |-> acc.detected_emotions,
         sentiment_score           |-> sentiment_score,
         emotional_intensity       |-> acc.max_confidence,
         urgency_level             |-> scan.urgency,
         support_type_needed       |-> scan.support_type,
         recommended_response_tone |->
             DetermineResponseTone(acc.primary_emotion, sentiment_score, scan.urgency)]

\* the rest of analyze_text_emotions: lib holds what the three libraries did
\* and whether a step outside their try blocks raised, which the outer
\* except branch answers with the neutral reading
AnalysisOf(scan, lib, classifierLoaded, vaderLoaded, transformersAvailable, sentimentAvailable) ==
    IF lib.internal = "raises" THEN NeutralReading ELSE
    LET acc == IF classifierLoaded /\ transformersAvailable
               THEN TransformerStep(scan.patterns, lib.classifier)
               ELSE scan.patterns
        sentiment_score == SentimentScore(vaderLoaded, sentimentAvailable,
                                          lib.vader, lib.textblob)
    IN  [primary_emotion           |-> acc.primary_emotion,
         confidence                |-> acc.max_confidence,
         secondary_emotions        |-> acc.detected_emotions,
         sentiment_score           |-> sentiment_score,
         emotional_intensity       |-> acc.max_confidence,
         urgency_level             |-> scan.urgency,
         support_type_needed       |-> scan.support_type,
         recommended_response_tone |->
             DetermineResponseTone(acc.primary_emotion, sentiment_score, scan.urgency)]

\* analyze_text_emotions(text)
AnalyzeTextEmotions(text, lib, classifierLoaded, vaderLoaded, transformersAvailable, sentimentAvailable) ==
    AnalysisOf(PatternScan(text), lib, classifierLoaded, vaderLoaded,
               transformersAvailable, sentimentAvailable)

\* no analysis has been made
NoReading ==
    [primary_emotion |-> "unset", confidence |-> 0, secondary_emotions |-> EmptyDict,
     sentiment_score |-> 0, emotional_intensity |-> 0, urgency_level |-> "low",
     support_type_needed |-> "informational", recommended_response_tone |-> "neutral"]

(***************************************************************************)
(* Inputs of the analyzer                                                  *)
(***************************************************************************)
\* the phrases the analyzed texts are made of
EmotionWords == <<"i am scared", "so afraid", "Really worried", "thank you", "urgent">>

\* the text made of the phrases with the given positions, in order
TextOf(positions) ==
    LET chosen == SelectSeq([i \in 1..Len(EmotionWords) |-> i],
                            LAMBDA i : i \in positions)
    IN  Join([k \in 1..Len(chosen) |-> Chars(EmotionWords[chosen[k]])])

\* a text that hits fear and anger above the cap
T_AfraidAngry == Chars("so afraid so angry really mad")

EmotionTexts ==
    {TextOf(positions) : positions \in SUBSET (1..Len(EmotionWords))} \cup {T_AfraidAngry}

\* what the emotion classifier may do: raise, return nothing, or return a
\* top label of the model with its score
ClassifierLabels == {"joy", "fear", "anger", "sadness", "disgust", "surprise", "neutral"}
ClassifierScores == {40, 98}
ClassifierOutcomes ==
    {[kind |-> "raises", label |-> "", score |-> 0],
     [kind |-> "empty", label |-> "", score |-> 0]}
    \cup [kind : {"top"}, label : ClassifierLabels, score : ClassifierScores]

\* VADER compound scores and TextBlob polarities, or an exception
VaderOutcomes ==
    {[kind |-> "raises", score |-> 0]} \cup [kind : {"score"}, score : {-31, 0, 31}]
TextBlobOutcomes ==
    {[kind |-> "raises", score |-> 0]} \cup [kind : {"score"}, score : {-30, 0, 30}]

\* a step outside the library blocks raises in one more outcome
LibraryOutcomes ==
    [classifier : ClassifierOutcomes, vader : VaderOutcomes, textblob : TextBlobOutcomes,
     internal : {"ok"}]
    \cup {[classifier |-> [kind |-> "empty", label |-> "", score |-> 0],
           vader |-> [kind |-> "score", score |-> 0],
           textblob |-> [kind |-> "score", score |-> 0], internal |-> "raises"]}

\* no analysis has been made
NoLibraryOutcome ==
    [classifier |-> [kind |-> "empty", label |-> "", score |-> 0],
     vader |-> [kind |-> "score", score |-> 0],
     textblob |-> [kind |-> "score", score |-> 0], internal |-> "ok"]

\* the messages sent to the chat service
ChatMessages ==
    {Chars("Hello there!"), Chars("i am scared"), Chars("upi pin"), Chars("weather")}

\* the scans of the input texts
ScanOfText == [message \in EmotionTexts \cup ChatMessages |-> PatternScan(message)]

(***************************************************************************)
(* Analyzer operations                                                     *)
(***************************************************************************)
\* import of the module and __init__; the arguments say which of the
\* optional imports succeeded
AnalyzerInit(sentiment, transformers) ==
    /\ SENTIMENT_AVAILABLE = sentiment
    /\ TRANSFORMERS_AVAILABLE = transformers
    /\ vader_analyzer = FALSE
    /\ emotion_classifier = FALSE
    /\ ei_is_initialized = FALSE
    /\ analyzed_text = <<>>
    /\ emotion_analysis = NoReading
    /\ library_outcome = NoLibraryOutcome

\* initialize() of the analyzer
AnalyzerInitialize(vaderOk, pipelineOk) ==
    /\ IF ei_is_initialized \/ (SENTIMENT_AVAILABLE /\ ~vaderOk)
       THEN UNCHANGED <<vader_analyzer, emotion_classifier, ei_is_initialized>>
       ELSE /\ vader_analyzer' = SENTIMENT_AVAILABLE
            /\ emotion_classifier' = (TRANSFORMERS_AVAILABLE /\ pipelineOk)
            /\ ei_is_initialized' = TRUE
    /\ UNCHANGED <<SENTIMENT_AVAILABLE, TRANSFORMERS_AVAILABLE, analyzed_text,
                   emotion_analysis, library_outcome>>

\* analyze_text_emotions(message) returns
AnalyzeTextEmotionsCall(message, lib) ==
    /\ analyzed_text' = message
    /\ library_outcome' = lib
    /\ emotion_analysis' =
           AnalysisOf(ScanOfText[message], lib, emotion_classifier, vader_analyzer,
                      TRANSFORMERS_AVAILABLE, SENTIMENT_AVAILABLE)
    /\ UNCHANGED <<SENTIMENT_AVAILABLE, TRANSFORMERS_AVAILABLE, vader_analyzer,
                   emotion_classifier, ei_is_initialized>>

(***************************************************************************)
(* EnhancedEmotionalIntelligence: the per-user conversation context store  *)
(***************************************************************************)
\* most entries each of the two histories keeps
HistoryCap == 20
\* the summary looks at this many latest readings, computes a trend from
\* this many on, and reports a change of the half-sums beyond this margin
SummaryWindow == 5
TrendMinReadings == 3
TrendMargin == 20
\* extra support is needed above this average intensity
SupportIntensity == 60

\* ConversationContext(...) of get_conversation_context
NewContext(user_id) ==
    [user_id |-> user_id, conversation_history |-> <<>>,
     emotional_state_history |-> <<>>, total_interactions |-> 0]

\* get_conversation_context: the contexts after the call
GetConversationContext(contexts, user_id) ==
    IF user_id \in DOMAIN contexts THEN contexts
    ELSE DictSet(contexts, user_id, NewContext(user_id))

\* seq[-n:] when seq is longer than n, seq itself otherwise
KeepLast_Oldest(seq, n) ==
    IF Len(seq) > n THEN SubSeq(seq, 1, n) ELSE seq

\* `if len(seq) > n: seq = seq[-n:]`
KeepLast(seq, n) ==
    IF Len(seq) > n THEN SubSeq(seq, Len(seq) - n + 1, Len(seq)) ELSE seq

\* the entry update_conversation_context appends to conversation_history
HistoryEntry(user_message, ai_response, reading) ==
    [user_message |-> user_message, ai_response |-> ai_response,
     emotion_analysis |-> reading]

\* an update that counts only the interactions it keeps
UpdatedContexts_CountsKept(contexts, user_id, user_message, ai_response, reading) ==
    LET known   == GetConversationContext(contexts, user_id)
        context == known[user_id]
        history == KeepLast(Append(context.conversation_history,
                                   HistoryEntry(user_message, ai_response, reading)),
                            HistoryCap)
    IN  DictSet(known, user_id,
            [user_id |-> context.user_id,
             conversation_history |-> history,
             emotional_state_history |->
                 KeepLast(Append(context.emotional_state_history, reading), HistoryCap),
             total_interactions |-> Len(history)])

\* update_conversation_context: the contexts after the call
UpdatedContexts(contexts, user_id, user_message, ai_response, reading) ==
    LET known   == GetConversationContext(contexts, user_id)
        context == known[user_id]
    IN  DictSet(known, user_id,
            [user_id |-> context.user_id,
             conversation_history |->
                 KeepLast(Append(context.conversation_history,
                                 HistoryEntry(user_message, ai_response, reading)),
                          HistoryCap),
             emotional_state_history |->
                 KeepLast(Append(context.emotional_state_history, reading), HistoryCap),
             total_interactions |-> context.total_interactions + 1])

\* seq[-n:]
LastOf(seq, n) == SubSeq(seq, IF Len(seq) > n THEN Len(seq) - n + 1 ELSE 1, Len(seq))

\* seq[-4:-2]
FourthToThirdLast(seq) ==
    SubSeq(seq, IF Len(seq) > 4 THEN Len(seq) - 3 ELSE 1, Len(seq) - 2)

RECURSIVE SumIntensity(_)
SumIntensity(readings) ==
    IF readings = <<>> THEN 0
    ELSE Head(readings).emotional_intensity + SumIntensity(Tail(readings))

\* emotion_counts after the loop over the recent readings: the emotions in
\* the order of their first occurrence, and their counts
FirstOccurrences(readings) ==
    SelectSeq([i \in 1..Len(readings) |-> i],
              LAMBDA i : \A j \in 1..(i - 1) :
                             readings[j].primary_emotion # readings[i].primary_emotion)

CountOf(readings, emotion) ==
    Cardinality({i \in 1..Len(readings) : readings[i].primary_emotion = emotion})

\* max(emotion_counts, key=emotion_counts.get): the first key with the highest count
DominantEmotion(readings) ==
    LET firsts == FirstOccurrences(readings)
        count(k) == CountOf(readings, readings[firsts[k]].primary_emotion)
        best == CHOOSE k \in 1..Len(firsts) :
                    \A m \in 1..Len(firsts) :
                        count(m) < count(k) \/ (count(m) = count(k) /\ k <= m)
    IN  IF readings = <<>> THEN "neutral" ELSE readings[firsts[best]].primary_emotion

\* the trend block; the halves are compared doubled
EmotionTrend(recent_emotions) ==
    IF Len(recent_emotions) >= TrendMinReadings
    THEN LET recent_sum  == SumIntensity(LastOf(recent_emotions, 2))
             earlier_sum == SumIntensity(FourthToThirdLast(recent_emotions))
         IN  IF recent_sum > earlier_sum + 2 * TrendMargin THEN "worsening"
             ELSE IF recent_sum < earlier_sum - 2 * TrendMargin THEN "improving"
             ELSE "stable"
    ELSE "stable"

\* _generate_emotional_recommendations
EmotionalRecommendations(dominant_emotion, trend, needs_support) ==
       (IF needs_support
        THEN <<"Provide extra emotional support and reassurance",
               "Use calming and empathetic language",
               "Offer specific, actionable steps to reduce anxiety">>
        ELSE <<>>)
    \o (IF dominant_emotion = "fear"
        THEN <<"Focus on safety and security information",
               "Provide clear, step-by-step guidance",
               "Emphasize protective measures and support systems">>
        ELSE IF dominant_emotion = "anger"
        THEN <<"Acknowledge the user's frustration",
               "Provide channels for proper complaint resolution",
               "Focus on constructive solutions">>
        ELSE IF dominant_emotion = "sadness"
        THEN <<"Offer hope and recovery stories",
               "Provide timeline for resolution",
               "Connect with support resources">>
        ELSE <<>>)
    \o (IF trend = "worsening"
        THEN <<"Consider escalating to human support if available">>
        ELSE IF trend = "improving"
        THEN <<"Acknowledge progress and encourage continued engagement">>
        ELSE <<>>)

\* no summary has been asked for since the last change of the contexts
NoSummary ==
    [user_id |-> "", status |-> "unset", dominant_emotion |-> "neutral",
     average_intensity |-> [num |-> 0, den |-> 1], emotion_trend |-> "stable",
     needs_extra_support |-> FALSE, total_interactions |-> 0, recommendations |-> <<>>]

\* get_emotional_state_summary for a context; average_intensity is the
\* fraction total_intensity / len(recent_emotions)
EmotionalStateSummary(context) ==
    IF context.emotional_state_history = <<>>
    THEN [NoSummary EXCEPT !.user_id = context.user_id, !.status = "no_history"]
    ELSE LET recent_emotions  == LastOf(context.emotional_state_history, SummaryWindow)
             total_intensity  == SumIntensity(recent_emotions)
             dominant_emotion == DominantEmotion(recent_emotions)
             needs_extra_support ==
                 /\ dominant_emotion \in {"fear", "anxiety", "sadness"}
                 /\ total_intensity > SupportIntensity * Len(recent_emotions)
             emotion_trend    == EmotionTrend(recent_emotions)
         IN  [user_id             |-> context.user_id,
              status              |-> "analyzed",
              dominant_emotion    |-> dominant_emotion,
              average_intensity   |-> [num |-> total_intensity,
                                       den |-> Len(recent_emotions)],
              emotion_trend       |-> emotion_trend,
              needs_extra_support |-> needs_extra_support,
              total_interactions  |-> context.total_interactions,
              recommendations     |->
                  EmotionalRecommendations(dominant_emotion, emotion_trend,
                                           needs_extra_support)]

(***************************************************************************)
(* Inputs of the context store                                             *)
(***************************************************************************)
Users == {"asha", "ravi"}

\* a reading with the given emotion, intensity and urgency
ReadingWith(emotion, intensity, urgency) ==
    [primary_emotion |-> emotion, confidence |-> intensity,
     secondary_emotions |-> DictSet(EmptyDict, emotion, intensity),
     sentiment_score |-> 0, emotional_intensity |-> intensity,
     urgency_level |-> urgency, support_type_needed |-> "informational",
     recommended_response_tone |-> DetermineResponseTone(emotion, 0, urgency)]

\* the readings the summaries are computed from
TrendReadings ==
    {ReadingWith("fear", 80, "high"), ReadingWith("fear", 50, "medium"),
     ReadingWith("hope", 20, "low")}

\* most update_conversation_context calls, all users together, before summaries
MaxReadings == 4

\* most update_conversation_context calls for one user in the history runs
MaxUpdates == 25

\* in the history runs the n-th exchange of a user carries the number n as
\* its message and response and the n-th reading of this cycle
ReadingCycle ==
    <<ReadingWith("fear", 80, "high"), ReadingWith("hope", 20, "low"),
      ReadingWith("gratitude", 70, "low")>>

ExchangeAt(n) ==
    HistoryEntry(n, n, ReadingCycle[(n % Len(ReadingCycle)) + 1])

(***************************************************************************)
(* Context store operations                                                *)
(***************************************************************************)
\* __init__: no contexts
ContextInit ==
    /\ conversation_contexts = EmptyDict
    /\ appended = [u \in Users |-> <<>>]
    /\ emotional_state_summary = NoSummary

\* update_conversation_context(user_id, user_message, ai_response, reading);
\* appended keeps every entry ever appended for the user
UpdateConversationContext(user_id, user_message, ai_response, reading) ==
    /\ conversation_contexts' =
           UpdatedContexts(conversation_contexts, user_id, user_message,
                           ai_response, reading)
    /\ appended' = [appended EXCEPT ![user_id] =
                       Append(@, HistoryEntry(user_message, ai_response, reading))]
    /\ emotional_state_summary' = NoSummary

\* get_emotional_state_summary(user_id) returns
GetEmotionalStateSummary(user_id) ==
    LET known == GetConversationContext(conversation_contexts, user_id)
    IN  /\ conversation_contexts' = known
        /\ emotional_state_summary' = EmotionalStateSummary(known[user_id])
        /\ UNCHANGED appended

(***************************************************************************)
(* update_conversation_context run by the request threads of the Flask     *)
(* server (app.run serves each request in a thread of its own; the code    *)
(* takes no lock).  A thread runs one statement in one step; the contexts  *)
(* are objects, and self.conversation_contexts and the local variable      *)
(* `context` refer to them.                                                 *)
(***************************************************************************)
\* the request threads
Threads == {1, 2}

\* the exchange the request of thread t appends
ThreadExchange(t) == ExchangeAt(t)

NoFrame == [user_id |-> "", context |-> 0, loaded |-> 0]

\* __init__: no contexts, no request running
ThreadsInit ==
    /\ context_objects = <<>>
    /\ context_refs = [u \in Users |-> 0]
    /\ thread_pc = [t \in Threads |-> "idle"]
    /\ thread_frame = [t \in Threads |-> NoFrame]

\* the request of thread t reaches update_conversation_context(user_id, ...)
CallUpdate(t, user_id) ==
    /\ thread_pc[t] = "idle"
    /\ thread_pc' = [thread_pc EXCEPT ![t] = "check"]
    /\ thread_frame' = [thread_frame EXCEPT ![t].user_id = user_id]
    /\ UNCHANGED <<context_objects, context_refs>>

\* get_conversation_context: `if user_id not in self.conversation_contexts`
CheckContext(t) ==
    /\ thread_pc[t] = "check"
    /\ thread_pc' = [thread_pc EXCEPT ![t] =
                        IF context_refs[thread_frame[t].user_id] = 0
                        THEN "create" ELSE "fetch"]
    /\ UNCHANGED <<context_objects, context_refs, thread_frame>>

\* `self.conversation_contexts[user_id] = ConversationContext(...)`
CreateContext(t) ==
    /\ thread_pc[t] = "create"
    /\ context_objects' = Append(context_objects, NewContext(thread_frame[t].user_id))
    /\ context_refs' = [context_refs EXCEPT ![thread_frame[t].user_id] =
                            Len(context_objects) + 1]
    /\ thread_pc' = [thread_pc EXCEPT ![t] = "fetch"]
    /\ UNCHANGED thread_frame

\* `return self.conversation_contexts[user_id]`, assigned to `context`
FetchContext(t) ==
    /\ thread_pc[t] = "fetch"
    /\ thread_frame' = [thread_frame EXCEPT ![t].context =
                            context_refs[thread_frame[t].user_id]]
    /\ thread_pc' = [thread_pc EXCEPT ![t] = "append_history"]
    /\ UNCHANGED <<context_objects, context_refs>>

\* `context.conversation_history.append({...})`
AppendHistory(t) ==
    /\ thread_pc[t] = "append_history"
    /\ context_objects' =
           [context_objects EXCEPT ![thread_frame[t].context].conversation_history =
               Append(@, ThreadExchange(t))]
    /\ thread_pc' = [thread_pc EXCEPT ![t] = "append_emotion"]
    /\ UNCHANGED <<context_refs, thread_frame>>

\* `context.emotional_state_history.append(emotion_analysis)`
AppendEmotion(t) ==
    /\ thread_pc[t] = "append_emotion"
    /\ context_objects' =
           [context_objects EXCEPT ![thread_frame[t].context].emotional_state_history =
               Append(@, ThreadExchange(t).emotion_analysis)]
    /\ thread_pc' = [thread_pc EXCEPT ![t] = "load_total"]
    /\ UNCHANGED <<context_refs, thread_frame>>

\* `context.total_interactions += 1`: the attribute is loaded
LoadTotal(t) ==
    /\ thread_pc[t] = "load_total"
    /\ thread_frame' = [thread_frame EXCEPT ![t].loaded =
                            context_objects[thread_frame[t].context].total_interactions]
    /\ thread_pc' = [thread_pc EXCEPT ![t] = "store_total"]
    /\ UNCHANGED <<context_objects, context_refs>>

\* `context.total_interactions += 1`: the sum is stored
StoreTotal(t) ==
    /\ thread_pc[t] = "store_total"
    /\ context_objects' =
           [context_objects EXCEPT ![thread_frame[t].context].total_interactions =
               thread_frame[t].loaded + 1]
    /\ thread_pc' = [thread_pc EXCEPT ![t] = "cap"]
    /\ UNCHANGED <<context_refs, thread_frame>>

\* the two `if len(...) > 20` statements; the lists of these runs stay below
\* the cap, so the statements are taken as one step
CapHistories(t) ==
    /\ thread_pc[t] = "cap"
    /\ context_objects' =
           [context_objects EXCEPT
               ![thread_frame[t].context].conversation_history = KeepLast(@, HistoryCap),
               ![thread_frame[t].context].emotional_state_history = KeepLast(@, HistoryCap)]
    /\ thread_pc' = [thread_pc EXCEPT ![t] = "done"]
    /\ UNCHANGED <<context_refs, thread_frame>>

\* a step of thread t inside update_conversation_context
ThreadStep(t) ==
    \/ CheckContext(t)
    \/ CreateContext(t)
    \/ FetchContext(t)
    \/ AppendHistory(t)
    \/ AppendEmotion(t)
    \/ LoadTotal(t)
    \/ StoreTotal(t)
    \/ CapHistories(t)

(***************************************************************************)
(* PersonalityEngine: the shaping of a response text.  Emoji of the        *)
(* templates are left out of the texts.                                    *)
(***************************************************************************)
\* _initialize_personalities: the levels in hundredths
personality_profiles ==
    [compassionate_guardian |->
         [empathy_level |-> 95, humor_usage |-> 30, formality_level |-> 40,
          supportiveness |-> 95, optimism |-> 80, detail_orientation |-> 85],
     knowledgeable_mentor |->
         [empathy_level |-> 80, humor_usage |-> 20, formality_level |-> 60,
          supportiveness |-> 85, optimism |-> 75, detail_orientation |-> 95],
     friendly_companion |->
         [empathy_level |-> 85, humor_usage |-> 70, formality_level |-> 20,
          supportiveness |-> 80, optimism |-> 90, detail_orientation |-> 70]]

DefaultPersonality == "compassionate_guardian"

\* _initialize_response_templates: the two template lists the shaping reads;
\* .get(key, []) of a personality without the key is the empty list
response_templates ==
    [compassionate_guardian |->
         [greeting |->
              <<"Hello there, dear! I'm so glad you've reached out to me today.",
                "Hi sweetheart! I'm here to support you through whatever you're facing.",
                "Welcome, my friend! You're in a safe space with me now.">>,
          encouragement |->
              <<"You're being so incredibly brave by reaching out for help - that takes real strength.",
                "I want you to know that you're not walking through this alone - I'm right here with you.",
                "You have more resilience within you than you realize, and together we'll get through this.">>],
     knowledgeable_mentor |->
         [greeting |->
              <<"Good day! I'm pleased to assist you with your inquiry today.",
                "Hello! I'm here to provide you with comprehensive guidance and information.",
                "Welcome! Let's work together to address your concerns with thorough, reliable information.">>,
          encouragement |-> <<>>],
     friendly_companion |->
         [greeting |->
              <<"Hey there! So good to see you! What's happening in your world today?",
                "Hi friend! I'm excited to chat with you and help however I can!",
                "Hello! Ready to tackle whatever's on your mind together?">>,
          encouragement |->
              <<"You're doing amazing by taking action - seriously, good for you!",
                "I'm honestly impressed by how you're handling this - you've got great instincts!",
                "You know what? I have a really good feeling about how this is going to work out!">>]]

\* _initialize_personality_modifiers: the tone adjustments per emotion and
\* personality, and the complexity_reduction of the language patterns
\* (patterns.get("complexity_reduction", 1.0))
personality_modifiers ==
    [fear |->
         [tone_adjustments |->
              [compassionate_guardian |-> <<"extra_gentle", "very_reassuring", "protective">>,
               knowledgeable_mentor |-> <<"authoritative_calming", "step_by_step", "confidence_building">>,
               friendly_companion |-> <<"supportive_buddy", "optimistic", "problem_solving">>],
          complexity_reduction |-> 80],
     anger |->
         [tone_adjustments |->
              [compassionate_guardian |-> <<"validating", "calming", "understanding">>,
               knowledgeable_mentor |-> <<"solution_focused", "systematic", "empowering">>,
               friendly_companion |-> <<"acknowledging", "action_oriented", "channeling_energy">>],
          complexity_reduction |-> 100],
     sadness |->
         [tone_adjustments |->
              [compassionate_guardian |-> <<"deeply_empathetic", "hopeful", "nurturing">>,
               knowledgeable_mentor |-> <<"hope_focused", "recovery_oriented", "factual_optimism">>,
               friendly_companion |-> <<"companionate", "uplifting", "future_focused">>],
          complexity_reduction |-> 100],
     anxiety |->
         [tone_adjustments |->
              [compassionate_guardian |-> <<"grounding", "step_by_step", "presence">>,
               knowledgeable_mentor |-> <<"clear_structure", "logical_progression", "certainty">>,
               friendly_companion |-> <<"normalizing", "confidence_building", "collaborative">>],
          complexity_reduction |-> 100]]

\* the replacements of a list applied one after the other with re.sub
RECURSIVE SubWords(_, _)
SubWords(text, replacements) ==
    IF replacements = <<>> THEN text
    ELSE SubWords(SubWord(text, Chars(Head(replacements)[1]),
                          Chars(Head(replacements)[2])),
                  Tail(replacements))

\* the replacements of a list applied one after the other with str.replace
RECURSIVE Replacements(_, _)
Replacements(text, replacements) ==
    IF replacements = <<>> THEN text
    ELSE Replacements(Replace(text, Chars(Head(replacements)[1]),
                              Chars(Head(replacements)[2])),
                      Tail(replacements))

\* _make_more_casual
MakeMoreCasual(text) ==
    SubWords(text, <<<<"You", "You">>, <<"I am", "I'm">>, <<"do not", "don't">>,
                     <<"cannot", "can't">>, <<"will not", "won't">>,
                     <<"should not", "shouldn't">>, <<"would not", "wouldn't">>,
                     <<"it is", "it's">>, <<"that is", "that's">>>>)

\* _make_more_formal
MakeMoreFormal(text) ==
    SubWords(text, <<<<"don't", "do not">>, <<"can't", "cannot">>,
                     <<"won't", "will not">>, <<"shouldn't", "should not">>,
                     <<"wouldn't", "would not">>, <<"it's", "it is">>,
                     <<"that's", "that is">>>>)

\* _add_warmth_markers
AddWarmthMarkers(text) ==
    Replacements(text, <<<<"I understand", "I truly understand">>,
                         <<"This is difficult", "This must be so difficult for you">>,
                         <<"You should", "You might consider">>,
                         <<"Here's what to do", "Here's what I'd gently suggest">>,
                         <<"The process", "This process">>>>)

\* _enhance_detail_structure
EnhanceDetailStructure(text) ==
    IF Contains(text, <<":">>) /\ ~(Count(text, Chars("**")) > 4)
    THEN LET lines == SplitLines(text)
         IN  JoinLines([i \in 1..Len(lines) |->
                 IF /\ Contains(lines[i], <<":">>)
                    /\ ~(Strip(lines[i]) # <<>> /\ Head(Strip(lines[i])) = Bullet)
                 THEN Chars("**") \o lines[i] \o Chars("**")
                 ELSE lines[i]])
    ELSE text

\* _apply_personality_style
ApplyPersonalityStyle(response, personality, reading) ==
    LET styled == IF personality.formality_level < 30 THEN MakeMoreCasual(response)
                  ELSE IF personality.formality_level > 70 THEN MakeMoreFormal(response)
                  ELSE response
        warmed == IF /\ personality.empathy_level > 80
                     /\ reading.primary_emotion \in {"fear", "sadness", "anxiety"}
                  THEN AddWarmthMarkers(styled) ELSE styled
    IN  IF personality.detail_orientation > 80 THEN EnhanceDetailStructure(warmed)
        ELSE warmed

humor_additions ==
    <<"\n\n(And remember, even the best security experts sometimes forget their own passwords!)",
      "\n\nPS: You're definitely not alone in dealing with these tech challenges - I see questions like this all the time!",
      "\n\nPro tip: Consider yourself now part of the 'I've-learned-about-payment-security-the-hard-way' club!">>

\* _add_appropriate_humor; humor is 0 when random.random() is not below 0.3,
\* otherwise the addition random.choice picks
AddAppropriateHumor_AnyEmotion(text, reading, humor) ==
    IF humor > 0 THEN text \o Chars(humor_additions[humor]) ELSE text

AddAppropriateHumor(text, reading, humor) ==
    IF reading.primary_emotion \in {"neutral", "hope", "gratitude"} /\ humor > 0
    THEN text \o Chars(humor_additions[humor])
    ELSE text

\* _add_personality_elements; random holds what the random module returns
AddPersonalityElements(response, personality, name, reading, conversation_stage, random) ==
    LET templates   == response_templates[name].greeting
        opened ==
            IF conversation_stage = "greeting" /\ templates # <<>>
            THEN Chars(templates[random.opening]) \o Chars("\n\n") \o response
            ELSE response
        encouragement_templates == response_templates[name].encouragement
        encouraged ==
            IF /\ reading.primary_emotion \in {"fear", "anxiety", "sadness"}
               /\ personality.supportiveness > 80
               /\ encouragement_templates # <<>>
            THEN opened \o Chars("\n\n")
                        \o Chars(encouragement_templates[random.encouragement])
            ELSE opened
    IN  IF /\ personality.humor_usage > 50
           /\ reading.sentiment_score > -20
           /\ reading.urgency_level # "high"
        THEN AddAppropriateHumor(encouraged, reading, random.humor)
        ELSE encouraged

reassuring_additions ==
    <<"You're absolutely safe now.", "This is completely manageable.",
      "You're taking exactly the right steps.">>

\* _apply_tone_adjustment
ApplyToneAdjustment(text, adjustment, random) ==
    IF adjustment = "extra_gentle"
    THEN Replacements(text,
             <<<<"You need to", "When you're ready, you might">>,
               <<"You must", "I'd gently recommend that you">>,
               <<"immediately", "when you feel comfortable doing so">>>>)
    ELSE IF adjustment = "very_reassuring"
    THEN Chars(reassuring_additions[random.reassuring]) \o <<" ">> \o text
    ELSE IF adjustment = "step_by_step"
    THEN IF Contains(text, Chars("1.")) \/ Contains(text, <<Bullet>>)
         THEN Chars("Let me break this down into clear, manageable steps:\n\n") \o text
         ELSE text
    ELSE text

RECURSIVE ToneAdjustmentLoop(_, _, _)
ToneAdjustmentLoop(text, adjustments, random) ==
    IF adjustments = <<>> THEN text
    ELSE ToneAdjustmentLoop(ApplyToneAdjustment(text, Head(adjustments), random),
                            Tail(adjustments), random)

\* _apply_language_patterns
ApplyLanguagePatterns(text, complexity_reduction) ==
    IF complexity_reduction < 90
    THEN SubWords(text, <<<<"however", "but">>, <<"nevertheless", "but">>,
                          <<"furthermore", "but">>, <<"consequently", "but">>>>)
    ELSE text

\* _apply_emotional_modifiers
ApplyEmotionalModifiers(response, reading, name, random) ==
    IF reading.primary_emotion \in DOMAIN personality_modifiers
    THEN LET modifiers == personality_modifiers[reading.primary_emotion]
         IN  ApplyLanguagePatterns(
                 ToneAdjustmentLoop(response, modifiers.tone_adjustments[name], random),
                 modifiers.complexity_reduction)
    ELSE response

\* the steps of the shaping an exception can come from
ShapeSteps == {"style", "elements", "modifiers"}

\* generate_personality_enhanced_response returning what it had computed
\* when a step raised
ShapedResponse_KeepsPartial(profiles, base_response, reading, conversation_stage, name, random) ==
    LET personality == profiles[name]
        styled   == ApplyPersonalityStyle(base_response, personality, reading)
        elements == AddPersonalityElements(styled, personality, name, reading,
                                           conversation_stage, random)
    IN  IF random.raises = "style" THEN base_response
        ELSE IF random.raises = "elements" THEN styled
        ELSE IF random.raises = "modifiers" THEN elements
        ELSE ApplyEmotionalModifiers(elements, reading, name, random)

\* generate_personality_enhanced_response of an engine whose profile table
\* is profiles; random.raises names the step that raises, if any: the except
\* branch returns the base response
ShapedResponse(profiles, base_response, reading, conversation_stage, name, random) ==
    LET personality == profiles[name]
        styled   == ApplyPersonalityStyle(base_response, personality, reading)
        elements == AddPersonalityElements(styled, personality, name, reading,
                                           conversation_stage, random)
    IN  IF random.raises \in ShapeSteps THEN base_response
        ELSE ApplyEmotionalModifiers(elements, reading, name, random)

\* generate_personality_enhanced_response of the engine as constructed
PersonalityEnhancedResponse(base_response, reading, conversation_stage, name, random) ==
    ShapedResponse(personality_profiles, base_response, reading, conversation_stage,
                   name, random)

(***************************************************************************)
(* Inputs of the shaping                                                   *)
(***************************************************************************)
\* the profile table with the formality of one profile set
ProfilesWith(name, formality_level) ==
    [personality_profiles EXCEPT ![name].formality_level = formality_level]

\* the formality levels of the shaped profile: as constructed, or formal
FormalityLevels(name) == {personality_profiles[name].formality_level, 90}

\* the base responses
ShapeTexts ==
    {Chars("I'm here to help."),
     Chars("Don't share your PIN: it's secret."),
     Chars("You must act immediately. However, I understand.")}

\* the readings of the shaped messages
ShapeReadings ==
    {ReadingWith("neutral", 0, "low"), ReadingWith("fear", 80, "high"),
     ReadingWith("neutral", 0, "high"), ReadingWith("sadness", 40, "low")}

\* what the random module returns during one shaping, and the failing step
ShapeRandomOutcomes ==
    [opening : {1, 3}, encouragement : {2}, humor : {0, 2}, reassuring : {1, 2},
     raises : ShapeSteps \cup {"none"}]

\* generate_personality_enhanced_response has not been called
NoShapeCall ==
    [profiles |-> personality_profiles, personality |-> DefaultPersonality,
     base_response |-> <<>>, reading |-> NoReading,
     conversation_stage |-> "ongoing", random |-> [raises |-> "none"]]
NoShape == [returned |-> FALSE, text |-> <<>>]

ShapeIdle ==
    /\ shape_call = NoShapeCall
    /\ shape_result = NoShape

\* the formality level of the current profile is set and
\* generate_personality_enhanced_response is called, once in a behaviour
GeneratePersonalityEnhancedResponse(formality_level, base_response, reading, conversation_stage, random) ==
    LET profiles == ProfilesWith(current_personality, formality_level)
    IN  /\ ~shape_result.returned
        /\ shape_call' = [profiles |-> profiles, personality |-> current_personality,
                          base_response |-> base_response, reading |-> reading,
                          conversation_stage |-> conversation_stage, random |-> random]
        /\ shape_result' =
               [returned |-> TRUE,
                text |-> ShapedResponse(profiles, base_response, reading,
                                        conversation_stage, current_personality, random)]
(***************************************************************************)
(* AdvancedAIService: the response texts.  A text the source writes as a   *)
(* long literal is its opening line, without emoji; what the knowledge     *)
(* base returns is an input of the call.                                   *)
(***************************************************************************)
\* the optional imports of advanced_ai_service.py succeeded: their except
\* branches use logger before the module defines it, so a process in which
\* one of them failed has no service
SEMANTIC_ENGINE_AVAILABLE == TRUE
ENHANCED_AI_AVAILABLE == TRUE

\* `word in query_lower`
Has(query_lower, word) == Contains(query_lower, Chars(word))

\* _generate_fallback_response
GenerateFallbackResponse_Blank(message) == <<>>

GenerateFallbackResponse(message) ==
    Chars("**AI Assistant Response:**\n\nI understand you're asking about: \"")
        \o message \o Chars("\"")

\* a handler returned a text, or an exception left it
Returned(text) == [raised |-> FALSE, text |-> text]
Raised == [raised |-> TRUE, text |-> <<>>]

greetings ==
    <<"Hello! I'm your friendly UPI Guardian AI assistant. I'm here to help you stay safe and secure with your digital payments!",
      "Hi there! Welcome to UPI Guard! I'm your personal AI companion for payment security and fraud prevention.",
      "Hey! Great to meet you! I'm here to help you with anything related to UPI security, fraud prevention, or just to chat!",
      "Hello! I'm your AI guardian angel for digital payments. Whether you need security tips or just want to talk, I'm here for you!">>

\* _handle_greeting
HandleGreeting(message, kb) ==
    LET query_lower == Lower(message)
        greeting ==
            IF Has(query_lower, "morning")
            THEN "Good morning! Hope you're having a wonderful start to your day! I'm your UPI Guardian AI, ready to help you stay safe with digital payments."
            ELSE IF Has(query_lower, "afternoon")
            THEN "Good afternoon! I'm your friendly UPI Guardian AI assistant. How can I help brighten your day with some security tips or guidance?"
            ELSE IF Has(query_lower, "evening")
            THEN "Good evening! I'm your UPI Guardian AI companion. Winding down or need some quick payment security advice?"
            ELSE greetings[kb.greeting]
    IN  Returned(Chars(greeting) \o Chars("\n\n**I'm here to help you with:**"))

\* _handle_casual_conversation
HandleCasualConversation(message, kb) ==
    LET query_lower == Lower(message)
    IN  Returned(Chars(
            IF Has(query_lower, "name") THEN "**I'm your UPI Guardian AI!**"
            ELSE IF Has(query_lower, "who are you")
            THEN "**Hello! I'm your UPI Guardian AI assistant!**"
            ELSE IF Has(query_lower, "how are you") \/ Has(query_lower, "doing today")
            THEN "**I'm doing wonderfully, thank you for asking!**"
            ELSE "**I love chatting with you!**"))

\* _handle_emotional_distress
HandleEmotionalDistress(message, kb) ==
    LET query_lower == Lower(message)
    IN  Returned(
               Chars("**I'm so sorry you're going through this. You're not alone, and I'm here to help you.**")
            \o (IF /\ Has(query_lower, "money")
                   /\ (Has(query_lower, "lost") \/ Has(query_lower, "stolen"))
                THEN Chars("\n\n**About your money**: Many fraud cases can be resolved with proper reporting.")
                ELSE <<>>)
            \o (IF /\ Has(query_lower, "account")
                   /\ (Has(query_lower, "hacked") \/ Has(query_lower, "compromised"))
                THEN Chars("\n\n**Account security**: Once we secure your accounts and report the incident, we can work on strengthening your security to prevent future issues.")
                ELSE <<>>)
            \o (IF \E word \in {"scared", "afraid", "panicking"} : Has(query_lower, word)
                THEN Chars("\n\n**It's okay to feel scared**: This is a normal response to a traumatic event.")
                ELSE <<>>))

\* _handle_comfort_seeking
HandleComfortSeeking(message, kb) ==
    LET query_lower == Lower(message)
    IN  Returned(Chars(
            IF /\ \E phrase \in {"everything", "will be", "going to be"} :
                      Has(query_lower, phrase)
               /\ \E word \in {"okay", "alright", "fine"} : Has(query_lower, word)
            THEN "**Yes, everything is going to be okay. I promise you that.**"
            ELSE IF Has(query_lower, "what") /\ Has(query_lower, "do") /\ Has(query_lower, "now")
            THEN "**Let's create a clear action plan together. Here's exactly what to do step by step:**"
            ELSE IF Has(query_lower, "safe") \/ Has(query_lower, "secure")
                    \/ Has(query_lower, "protected")
            THEN "**Yes, you ARE safe and you WILL be protected. Here's why:**"
            ELSE IF Has(query_lower, "recover") /\ Has(query_lower, "money")
            THEN "**Yes, there's real hope for recovering your money! Here's the realistic outlook:**"
            ELSE "**I hear you, and I want you to know that seeking comfort is completely natural and healthy.**"))

\* _handle_rbi_query: every branch reads the knowledge base
HandleRbiQuery(message, kb) ==
    LET query_lower == Lower(message)
    IN  IF kb.raises THEN Raised
        ELSE Returned(Chars(
            IF Has(query_lower, "transaction") /\ Has(query_lower, "limit")
            THEN "**RBI Transaction Limits and Guidelines:**"
            ELSE IF Has(query_lower, "security") \/ Has(query_lower, "authentication")
            THEN "**RBI Security Requirements for UPI:**"
            ELSE IF Has(query_lower, "consumer") \/ Has(query_lower, "protection")
            THEN "**RBI Consumer Protection Framework:**"
            ELSE "**Complete RBI Guidelines for Digital Payments:**"))

\* _handle_fraud_query: the QR branch does not read the knowledge base
HandleFraudQuery(message, kb) ==
    LET query_lower == Lower(message)
    IN  IF Has(query_lower, "latest") \/ Has(query_lower, "new")
           \/ Has(query_lower, "emerging")
        THEN IF kb.raises THEN Raised
             ELSE Returned(Chars("**Latest Fraud Trends (2024-25):**"))
        ELSE IF Has(query_lower, "qr") \/ Has(query_lower, "code")
        THEN Returned(Chars("**QR Code Fraud - Detailed Analysis:**"))
        ELSE IF kb.raises THEN Raised
             ELSE Returned(Chars("**Comprehensive Fraud Prevention Guide:**"))

\* _handle_security_query
HandleSecurityQuery(message, kb) ==
    LET query_lower == Lower(message)
    IN  IF kb.raises THEN Raised
        ELSE Returned(Chars(
            IF Has(query_lower, "merchant") \/ Has(query_lower, "business")
            THEN "**Comprehensive Merchant Security Guidelines:**"
            ELSE "**Complete Personal Security Framework:**"))

\* _handle_emergency_query
HandleEmergencyQuery(message, kb) ==
    IF kb.raises THEN Raised
    ELSE Returned(Chars("**EMERGENCY FRAUD RESPONSE GUIDE:**"))

\* _handle_compliance_query
HandleComplianceQuery(message, kb) ==
    IF kb.raises THEN Raised
    ELSE Returned(Chars("**Complete Regulatory Compliance Framework:**"))

\* _handle_general_query; kb.found: search_knowledge_base returned results
HandleGeneralQuery(message, kb) ==
    IF kb.raises THEN Raised
    ELSE IF ~kb.found THEN Returned(GenerateFallbackResponse(message))
    ELSE Returned(Chars("**Comprehensive Information on: ") \o message
                  \o Chars("**\n\n**Additional Resources:**\nFor RBI guidelines: rbi.org.in"))

\* the handler generate_comprehensive_response calls for the category
Handled(category, message, kb) ==
    CASE category = "greeting"            -> HandleGreeting(message, kb)
      [] category = "casual_conversation" -> HandleCasualConversation(message, kb)
      [] category = "emotional_distress"  -> HandleEmotionalDistress(message, kb)
      [] category = "comfort_seeking"     -> HandleComfortSeeking(message, kb)
      [] category = "rbi_specific"        -> HandleRbiQuery(message, kb)
      [] category = "fraud_types"         -> HandleFraudQuery(message, kb)
      [] category = "security_measures"   -> HandleSecurityQuery(message, kb)
      [] category = "emergency_help"      -> HandleEmergencyQuery(message, kb)
      [] category = "compliance"          -> HandleComplianceQuery(message, kb)
      [] OTHER                            -> HandleGeneralQuery(message, kb)

\* generate_comprehensive_response
GenerateComprehensiveResponse(message, classified, kb) ==
    LET handled == Handled(classified.primary_category, message, kb)
    IN  IF handled.raised THEN GenerateFallbackResponse(message) ELSE handled.text

\* the conversation stage generate_response derives from the message
ConversationStage(message) ==
    IF \E word \in {"hi", "hello", "hey", "good morning", "good afternoon",
                    "good evening"} : Has(Lower(message), word)
    THEN "greeting" ELSE "ongoing"

AIInsightMinLength == 20

\* the generator block: the response text after it
AIEnhanced(text, outcome) ==
    IF outcome.kind = "raises" THEN text
    ELSE LET ai_text == Strip(outcome.text)
         IN  IF /\ Len(ai_text) > AIInsightMinLength
                /\ \E word \in {"payment", "security", "fraud", "safe"} :
                       Has(Lower(ai_text), word)
             THEN text \o Chars("\n\n**AI Insights:** ") \o ai_text
             ELSE text

\* the generator is asked only below this classification confidence
GeneratorConfidence == 50

(***************************************************************************)
(* Inputs of the chat service                                              *)
(***************************************************************************)
\* the user ids of the requests; "" is a request without one
ChatUsers == {"asha", ""}

\* the QA pairs the store is trained with before the service starts
ChatBatches == {<<[question |-> Q_UpiPin, answer |-> A_Ok, category |-> "general"]>>}

\* at most one part of the environment fails in one run: the loading of the
\* embedding model, of VADER, of the emotion pipeline or of the generator,
\* an encode call of initialize or of find_best_answer, the emotion
\* analysis, the emotion classifier, classify_query, the knowledge base,
\* the shaping, the context update, the generator or the metadata block
ChatFaults ==
    {"none", "model", "encode", "vader", "pipeline", "generator_load", "analyze",
     "classifier", "classify", "find_encode", "knowledge_base", "shaping",
     "update", "generator", "respond"}

\* what the libraries of the analyzer return during one request
ChatLibraryOutcomes(failing) ==
    [classifier : IF failing = "classifier"
                  THEN {[kind |-> "raises", label |-> "", score |-> 0]}
                  ELSE {[kind |-> "top", label |-> "fear", score |-> 98]},
     vader      : {[kind |-> "score", score |-> 31]},
     textblob   : {[kind |-> "score", score |-> 0]},
     internal   : {"ok"}]

\* the similarities the embedding model gives: below or above the threshold
ChatSimValues == {64, 90}

\* the find_best_answer calls of a request
ChatFindCalls(message, emb, failing) ==
    [called   : {TRUE},
     question : {message},
     sims     : [1..Len(emb) -> ChatSimValues],
     encodeOk : {failing # "find_encode"}]

\* what the knowledge base and random.choice do during one composition
KnowledgeBaseOutcomes(failing) ==
    [raises : {failing = "knowledge_base"}, found : BOOLEAN, greeting : {1, 4}]

\* what the random module returns during one shaping
RandomOutcomes(failing) ==
    {[opening |-> 1, encouragement |-> 1, humor |-> 0, reassuring |-> 1,
      raises |-> IF failing = "shaping" THEN "elements" ELSE "none"],
     [opening |-> 3, encouragement |-> 2, humor |-> 2, reassuring |-> 3,
      raises |-> IF failing = "shaping" THEN "elements" ELSE "none"]}

\* what self.generator does: it raises, or returns a text that is not taken
\* over, or one that is (longer than 20 characters, with a payment word)
GeneratorOutcomes(failing) ==
    IF failing = "generator" THEN {[kind |-> "raises", text |-> <<>>]}
    ELSE {[kind |-> "text", text |-> Chars("I do not know.")],
          [kind |-> "text", text |-> Chars("Keep every payment safe and private.")]}

\* the classifications and the stages of the messages
ClassificationOf == [message \in ChatMessages |-> ClassifyQuery(message)]
StageOf == [message \in ChatMessages |-> ConversationStage(message)]

\* generate_response has not returned
NoResponse == [model |-> "none", response |-> <<>>]

(***************************************************************************)
(* AdvancedAIService.generate_response, stage by stage.  pc names the      *)
(* stage the call is about to run.                                         *)
(***************************************************************************)
\* __init__ of the service and of the personality engine; no call is running
ChatInit ==
    /\ service_is_initialized = FALSE
    /\ generator = FALSE
    /\ current_personality = DefaultPersonality
    /\ pc = "idle"
    /\ request_message = <<>>
    /\ request_user = ""
    /\ response_text = <<>>
    /\ response_metadata = NoResponse

\* train_semantic_qa.py, run before the service is started: a process of
\* its own initializes an engine and calls add_qa_pairs; the two files are
\* what it leaves to the service
Train(batch) ==
    LET loaded == LoadQADatabase(qa_database_file, TRUE)
        load   == LoadEmbeddings(loaded, TRUE, embedding_cache_file, TRUE, TRUE, "ok")
        db     == AddLoop(loaded, batch)
        regen  == RegenerateEmbeddings(db, TRUE, load.cache, TRUE, "ok")
    IN  /\ pc = "idle" /\ ~service_is_initialized
        /\ IF Len(db) > Len(loaded)
           THEN /\ qa_database_file' = SaveQADatabase(db, qa_database_file, "ok")
                /\ embedding_cache_file' = regen.cache
           ELSE /\ UNCHANGED qa_database_file
                /\ embedding_cache_file' = load.cache
        /\ UNCHANGED <<qa_database, question_embeddings, embedding_model, is_initialized,
                       last_op, add_call, find_call, find_result>>
        /\ UNCHANGED <<classifierVars, analyzerVars, contextVars, chatVars, otherVars>>

\* PersonalityEngine.set_personality(personality_name)
SetPersonality(personality_name) ==
    /\ pc = "idle"
    /\ current_personality' =
           IF personality_name \in DOMAIN personality_profiles
           THEN personality_name ELSE current_personality
    /\ UNCHANGED <<service_is_initialized, generator, pc, request_message, request_user,
                   response_text, response_metadata>>
    /\ UNCHANGED <<engineVars, classifierVars, analyzerVars, contextVars, otherVars>>

\* AdvancedAIService.initialize: the engine, the analyzer and the generator
\* are loaded
ServiceInitialize ==
    IF service_is_initialized
    THEN UNCHANGED <<engineVars, analyzerVars, service_is_initialized, generator>>
    ELSE /\ Initialize(failing_part # "model", TRUE, TRUE, failing_part # "encode", "ok")
         /\ AnalyzerInitialize(failing_part # "vader", failing_part # "pipeline")
         /\ generator' = (failing_part # "generator_load")
         /\ service_is_initialized' = TRUE

\* app.py: the service is initialized when the application starts
StartService ==
    /\ pc = "idle" /\ ~service_is_initialized
    /\ ServiceInitialize
    /\ UNCHANGED <<current_personality, pc, request_message, request_user,
                   response_text, response_metadata>>
    /\ UNCHANGED <<classifierVars, contextVars, otherVars>>

\* generate_response(user_message, user_id=...) is called
ReceiveRequest(message, user) ==
    /\ pc = "idle"
    /\ pc' = "initialize"
    /\ request_message' = message
    /\ request_user' = user
    /\ find_call' = NoFind /\ find_result' = NoMatch
    /\ UNCHANGED <<service_is_initialized, generator, current_personality,
                   response_text, response_metadata>>
    /\ UNCHANGED <<qa_database, question_embeddings, embedding_model, is_initialized,
                   qa_database_file, embedding_cache_file, last_op, add_call>>
    /\ UNCHANGED <<classifierVars, analyzerVars, contextVars, otherVars>>

\* `if not self.is_initialized: await self.initialize()`
ChatInitialize ==
    /\ pc = "initialize"
    /\ pc' = "analyze"
    /\ ServiceInitialize
    /\ UNCHANGED <<current_personality, request_message, request_user, response_text,
                   response_metadata>>
    /\ UNCHANGED <<classifierVars, contextVars, otherVars>>

\* the emotion analysis block; when analyze_text_emotions raises,
\* emotion_analysis stays None
ChatAnalyze(lib) ==
    /\ pc = "analyze"
    /\ pc' = "classify"
    /\ IF ENHANCED_AI_AVAILABLE /\ failing_part # "analyze"
       THEN AnalyzeTextEmotionsCall(request_message, lib)
       ELSE UNCHANGED analyzerVars
    /\ UNCHANGED <<service_is_initialized, generator, current_personality,
                   request_message, request_user, response_text, response_metadata>>
    /\ UNCHANGED <<engineVars, classifierVars, contextVars, otherVars>>

\* classify_query; an exception here is caught by the outer handler
ChatClassify ==
    /\ pc = "classify"
    /\ IF failing_part = "classify"
       THEN pc' = "fallback" /\ UNCHANGED classifierVars
       ELSE /\ pc' = "semantic"
            /\ query' = request_message
            /\ classification' = ClassificationOf[request_message]
    /\ UNCHANGED <<service_is_initialized, generator, current_personality,
                   request_message, request_user, response_text, response_metadata>>
    /\ UNCHANGED <<engineVars, analyzerVars, contextVars, otherVars>>

\* check_semantic_response
ChatSemantic(call) ==
    /\ pc = "semantic"
    /\ pc' = "compose"
    /\ IF ~SEMANTIC_ENGINE_AVAILABLE \/ ~is_initialized
       THEN UNCHANGED engineVars
       ELSE FindBestAnswerCall(call)
    /\ UNCHANGED <<service_is_initialized, generator, current_personality,
                   request_message, request_user, response_text, response_metadata>>
    /\ UNCHANGED <<classifierVars, analyzerVars, contextVars, otherVars>>

\* the semantic answer, or the knowledge base response
ChatCompose(kb) ==
    /\ pc = "compose"
    /\ pc' = "shape"
    /\ response_text' =
           IF find_result # NoMatch THEN find_result.answer
           ELSE GenerateComprehensiveResponse(request_message, classification, kb)
    /\ UNCHANGED <<service_is_initialized, generator, current_personality,
                   request_message, request_user, response_metadata>>
    /\ UNCHANGED <<engineVars, classifierVars, analyzerVars, contextVars, otherVars>>

\* a personality block that records the base text in the context, not the
\* shaped one
ChatShape_RecordsBaseText(random) ==
    /\ pc = "shape"
    /\ pc' = "enhance"
    /\ IF ENHANCED_AI_AVAILABLE /\ emotion_analysis # NoReading
       THEN /\ response_text' = PersonalityEnhancedResponse(
                                    response_text, emotion_analysis,
                                    StageOf[request_message], current_personality, random)
            /\ IF request_user # "" /\ failing_part # "update"
               THEN UpdateConversationContext(request_user, request_message,
                                              response_text, emotion_analysis)
               ELSE UNCHANGED contextVars
       ELSE UNCHANGED <<response_text, contextVars>>
    /\ UNCHANGED <<service_is_initialized, generator, current_personality,
                   request_message, request_user, response_metadata>>
    /\ UNCHANGED <<engineVars, classifierVars, analyzerVars, otherVars>>

\* the personality block: shaping, then the context update, which may
\* raise after the shaped text has been assigned
ChatShape(random) ==
    /\ pc = "shape"
    /\ pc' = "enhance"
    /\ IF ENHANCED_AI_AVAILABLE /\ emotion_analysis # NoReading
       THEN LET shaped == PersonalityEnhancedResponse(
                              response_text, emotion_analysis,
                              StageOf[request_message], current_personality, random)
            IN  /\ response_text' = shaped
                /\ IF request_user # "" /\ failing_part # "update"
                   THEN UpdateConversationContext(request_user, request_message,
                                                  shaped, emotion_analysis)
                   ELSE UNCHANGED contextVars
       ELSE UNCHANGED <<response_text, contextVars>>
    /\ UNCHANGED <<service_is_initialized, generator, current_personality,
                   request_message, request_user, response_metadata>>
    /\ UNCHANGED <<engineVars, classifierVars, analyzerVars, otherVars>>

\* the generator block
ChatEnhance(outcome) ==
    /\ pc = "enhance"
    /\ pc' = "respond"
    /\ response_text' =
           IF generator /\ classification.confidence < GeneratorConfidence
           THEN AIEnhanced(response_text, outcome)
           ELSE response_text
    /\ UNCHANGED <<service_is_initialized, generator, current_personality,
                   request_message, request_user, response_metadata>>
    /\ UNCHANGED <<engineVars, classifierVars, analyzerVars, contextVars, otherVars>>

\* the metadata block and `return response_metadata`; an exception here is
\* caught by the outer handler
ChatRespond ==
    /\ pc = "respond"
    /\ IF failing_part = "respond"
       THEN /\ pc' = "fallback"
            /\ UNCHANGED <<response_metadata, contextVars>>
       ELSE /\ pc' = "done"
            /\ IF ENHANCED_AI_AVAILABLE /\ emotion_analysis # NoReading
                  /\ request_user # ""
               THEN GetEmotionalStateSummary(request_user)
               ELSE UNCHANGED contextVars
            /\ response_metadata' =
                   [response |-> response_text,
                    model    |-> IF ENHANCED_AI_AVAILABLE THEN "advanced_ai_enhanced"
                                 ELSE "advanced_ai_comprehensive",
                    semantic_match_used |-> find_result # NoMatch,
                    prompt_tokens     |-> WordCount(request_message),
                    completion_tokens |-> WordCount(response_text),
                    total_tokens      |-> WordCount(request_message)
                                              + WordCount(response_text),
                    emotional_intelligence_used |->
                        ENHANCED_AI_AVAILABLE /\ emotion_analysis # NoReading]
    /\ UNCHANGED <<service_is_initialized, generator, current_personality,
                   request_message, request_user, response_text>>
    /\ UNCHANGED <<engineVars, classifierVars, analyzerVars, otherVars>>

\* the outer `except Exception`: the fallback response is returned
ChatFallback ==
    /\ pc = "fallback"
    /\ pc' = "done"
    /\ response_metadata' =
           LET fallback_text == GenerateFallbackResponse(request_message)
           IN  [response |-> fallback_text,
                model    |-> "advanced_ai_fallback",
                prompt_tokens     |-> WordCount(request_message),
                completion_tokens |-> WordCount(fallback_text),
                error    |-> "Advanced AI processing failed, using comprehensive fallback"]
    /\ UNCHANGED <<service_is_initialized, generator, current_personality,
                   request_message, request_user, response_text>>
    /\ UNCHANGED <<engineVars, classifierVars, analyzerVars, contextVars, otherVars>>

(***************************************************************************)
(* custom_responses.py: the trigger table and its lookup                   *)
(***************************************************************************)
\* CUSTOM_RESPONSES, in the order of the dict: five of its categories, each
\* with all its triggers; the response text of a category is named by the
\* category (the texts of the categories differ)
CUSTOM_RESPONSES ==
    <<
     [category |-> "payment_request_safety",
      triggers |->
          <<Chars("how can i check if a payment request is safe"),
            Chars("payment request safe"),
            Chars("verify payment request"),
            Chars("check payment request"),
            Chars("is payment request safe")>>],
     [category |-> "scam_response",
      triggers |->
          <<Chars("what should i do if i think i've been scammed"),
            Chars("been scammed"),
            Chars("think i've been scammed"),
            Chars("if scammed"),
            Chars("scam happened")>>],
     [category |-> "transaction_security",
      triggers |->
          <<Chars("how do i know if my transaction is secure"),
            Chars("transaction secure"),
            Chars("secure transaction"),
            Chars("transaction safety"),
            Chars("is transaction safe")>>],
     [category |-> "transaction_limits",
      triggers |->
          <<Chars("how can i set transaction limits for safety"),
            Chars("set transaction limit"),
            Chars("daily transaction limit"),
            Chars("payment limit setting"),
            Chars("limit upi transactions"),
            Chars("reduce transaction limit"),
            Chars("transaction safety limit")>>],
     [category |-> "fake_payment_links",
      triggers |->
          <<Chars("how do i check if a payment link is real or fake"),
            Chars("fake payment link"),
            Chars("verify payment link"),
            Chars("suspicious links"),
            Chars("phishing links"),
            Chars("fake payment url"),
            Chars("check link safety")>>]
    >>

NoCustomResponse == "None"

\* re.sub(r'[^\w\s]', ' ', text) and ' '.join(text.split())
CleanText(text) ==
    Join(Split([i \in 1..Len(text) |->
                   IF IsWordChar(text[i]) \/ text[i] \in Whitespace THEN text[i] ELSE " "]))

\* similarity >= 0.7 and len(trigger_words) >= 3
OverlapTenths == 7
OverlapMinWords == 3

\* the two tests get_custom_response makes of one trigger
TriggerMatches(trigger, message_clean) ==
    LET trigger_clean == CleanText(trigger)
        trigger_words == Range(Split(trigger_clean))
        message_words == Range(Split(message_clean))
    IN  \/ Contains(message_clean, trigger_clean)
        \/ Contains(trigger_clean, message_clean)
        \/ /\ Cardinality(trigger_words) >= OverlapMinWords
           /\ 10 * Cardinality(trigger_words \cap message_words)
                  >= OverlapTenths * Cardinality(trigger_words)

\* get_custom_response: the category of the first trigger, in the order of
\* the table, that the message matches
GetCustomResponse(message) ==
    LET message_clean == CleanText(Strip(Lower(message)))
        hits == {k \in DOMAIN CUSTOM_RESPONSES :
                    \E j \in DOMAIN CUSTOM_RESPONSES[k].triggers :
                        TriggerMatches(CUSTOM_RESPONSES[k].triggers[j], message_clean)}
    IN  IF hits = {} THEN NoCustomResponse
        ELSE CUSTOM_RESPONSES[CHOOSE k \in hits : \A h \in hits : k <= h].category

\* `if custom_response:`
HasCustomResponse(message) == GetCustomResponse(message) # NoCustomResponse

\* str.upper()
Upper(s) == [i \in 1..Len(s) |->
                IF \E u \in DOMAIN UpperToLower : UpperToLower[u] = s[i]
                THEN CHOOSE u \in DOMAIN UpperToLower : UpperToLower[u] = s[i]
                ELSE s[i]]

\* the messages asked: every trigger as written, in capitals, with a
\* question mark and with a full stop, and short messages that are no trigger
TriggerPhrases ==
    UNION {Range(CUSTOM_RESPONSES[k].triggers) : k \in DOMAIN CUSTOM_RESPONSES}

ShortMessages == {Chars("hi"), Chars("hello"), Chars("hey"), Chars("?!"), Chars("thanks")}

CustomMessages ==
    TriggerPhrases \cup {Upper(t) : t \in TriggerPhrases}
        \cup {t \o <<"?">> : t \in TriggerPhrases}
        \cup {t \o <<".">> : t \in TriggerPhrases} \cup ShortMessages

CustomIdle ==
    /\ custom_message = <<>>
    /\ custom_response = NoCustomResponse
    /\ custom_asked = FALSE

\* chat_with_gpt: `custom_response = get_custom_response(data['message'].strip())`
GetCustomResponseCall(message) ==
    /\ ~custom_asked
    /\ custom_message' = message
    /\ custom_response' = GetCustomResponse(Strip(message))
    /\ custom_asked' = TRUE

(***************************************************************************)
(* app.py, the /chat route: chat_with_gpt run by the request threads       *)
(***************************************************************************)
\* the value of data['message']: a JSON string, a JSON number, null, or no
\* such key
TextMessage(str) == [kind |-> "text", text |-> Chars(str)]
NumberMessage == [kind |-> "number", text |-> <<>>]
NullMessage == [kind |-> "null", text |-> <<>>]
NoMessage == [kind |-> "absent", text |-> <<>>]

\* the request bodies: JSON objects, and a body that is not JSON, for which
\* request.get_json() returns None or raises, as the Flask release decides
RouteBodies ==
    [json        : {"object"},
     message     : {NoMessage, NullMessage, NumberMessage, TextMessage(""),
                    TextMessage("  "), TextMessage("hi"), TextMessage("hello")},
     personality : {"", "friendly_companion", "unknown"}]
    \cup [json : {"none", "raises"}, message : {NoMessage}, personality : {""}]

NoBody == [json |-> "object", message |-> NoMessage, personality |-> ""]
NoRouteResponse == [status |-> 0, error |-> "", profile |-> ""]

RouteInit ==
    /\ route_pc = [t \in Threads |-> "idle"]
    /\ route_request = [t \in Threads |-> NoBody]
    /\ route_response = [t \in Threads |-> NoRouteResponse]

\* the status and the error of a request the first statements of
\* chat_with_gpt end, status 0 when the request goes on
Validation(body) ==
    IF body.json = "raises"                                \* caught at line 245
    THEN [status |-> 500, error |-> "Internal server error", profile |-> ""]
    ELSE IF body.json = "none" \/ body.message.kind = "absent"
    THEN [status |-> 400, error |-> "Message is required", profile |-> ""]
    ELSE IF body.message.kind # "text"                     \* .strip() raises
    THEN [status |-> 500, error |-> "Internal server error", profile |-> ""]
    ELSE IF Strip(Lower(body.message.text)) = <<>>
    THEN [status |-> 400, error |-> "Message cannot be empty", profile |-> ""]
    ELSE NoRouteResponse

\* a request arrives at thread t: get_json and the two checks of the message
RouteValidate(t, body) ==
    /\ route_pc[t] \in {"idle", "done"}
    /\ route_request' = [route_request EXCEPT ![t] = body]
    /\ route_response' = [route_response EXCEPT ![t] = Validation(body)]
    /\ route_pc' = [route_pc EXCEPT ![t] =
                       IF Validation(body).status = 0 THEN "select" ELSE "done"]
    /\ UNCHANGED current_personality

\* a set_personality that takes every name given
RouteSelect_TakesAnyName(t) ==
    /\ route_pc[t] = "select"
    /\ current_personality' =
           IF route_request[t].personality # ""
           THEN route_request[t].personality ELSE current_personality
    /\ route_pc' = [route_pc EXCEPT ![t] =
                       IF HasCustomResponse(Strip(route_request[t].message.text))
                       THEN "custom" ELSE "generate"]
    /\ UNCHANGED <<route_request, route_response>>

\* `if personality: personality_engine.set_personality(personality)`
RouteSelect(t) ==
    /\ route_pc[t] = "select"
    /\ current_personality' =
           IF route_request[t].personality \in DOMAIN personality_profiles
           THEN route_request[t].personality ELSE current_personality
    /\ route_pc' = [route_pc EXCEPT ![t] =
                       IF HasCustomResponse(Strip(route_request[t].message.text))
                       THEN "custom" ELSE "generate"]
    /\ UNCHANGED <<route_request, route_response>>

\* the custom response is returned as it is
RouteCustom(t) ==
    /\ route_pc[t] = "custom"
    /\ route_response' = [route_response EXCEPT ![t] =
                             [status |-> 200, error |-> "", profile |-> "none"]]
    /\ route_pc' = [route_pc EXCEPT ![t] = "done"]
    /\ UNCHANGED <<route_request, current_personality>>

\* generate_response: generate_personality_enhanced_response shapes the
\* answer with get_current_personality()
RouteGenerate(t) ==
    /\ route_pc[t] = "generate"
    /\ route_response' = [route_response EXCEPT ![t] =
                             [status |-> 200, error |-> "", profile |-> current_personality]]
    /\ route_pc' = [route_pc EXCEPT ![t] = "done"]
    /\ UNCHANGED <<route_request, current_personality>>

(***************************************************************************)
(* Specifications                                                          *)
(***************************************************************************)
\* at most one environment fault strikes during one operation
InitFaults == {"none", "model", "db_read", "cache_read", "encode", "cache_open", "cache_dump"}
AddFaults == {"none", "save_open", "save_dump", "encode", "cache_open", "cache_dump"}

WriteOutcome(fault, open, dump) ==
    IF fault = open THEN "open_fails" ELSE IF fault = dump THEN "dump_fails" ELSE "ok"

InitializeStep ==
    \E fault \in InitFaults :
        Initialize(fault # "model", fault # "db_read", fault # "cache_read",
                   fault # "encode", WriteOutcome(fault, "cache_open", "cache_dump"))

AddQAPairsStep ==
    \E batch \in SingleBatches, fault \in AddFaults :
        /\ AddQAPairs(batch, WriteOutcome(fault, "save_open", "save_dump"),
                      fault # "encode", WriteOutcome(fault, "cache_open", "cache_dump"))
        /\ add_call' = NoCall

\* every component as constructed, and no part of the environment failing
\* outside the faults of the operations themselves
StoreInit ==
    /\ EngineInit /\ ClassifierIdle /\ AnalyzerInit(TRUE, TRUE) /\ ContextInit /\ ChatInit
    /\ failing_part = "none" /\ ShapeIdle /\ ThreadsInit /\ SwapInit /\ RouteInit
    /\ cache_at_load = NoFile /\ CustomIdle

\* the store: construction, loading, ingestion and restarts under faults
StoreNext ==
    /\ InitializeStep \/ AddQAPairsStep \/ Restart
    /\ UNCHANGED <<classifierVars, analyzerVars, contextVars, chatVars, otherVars>>

SpecStore == StoreInit /\ [][StoreNext]_vars

\* the resolver: a store built by fault-free loading and by ingestion
\* whose embedding step may fail, and the questions asked of it
ResolverNext ==
    /\ \/ Initialize(TRUE, TRUE, TRUE, TRUE, "ok")
       \/ \E batch \in SingleBatches, encodeOk \in BOOLEAN :
              AddQAPairs(batch, "ok", encodeOk, "ok") /\ add_call' = NoCall
       \/ \E call \in FindCalls(qa_database, question_embeddings) :
              FindBestAnswerCall(call)
    /\ UNCHANGED <<classifierVars, analyzerVars, contextVars, chatVars, otherVars>>

SpecResolver == StoreInit /\ [][ResolverNext]_vars

\* ingestion: each add_qa_pairs call is recorded with its batch, whether it
\* repeats the batch of the call right before it, and whether it changed
\* the records
RecordedAddQAPairs(batch) ==
    /\ AddQAPairs(batch, "ok", TRUE, "ok")
    /\ add_call' = [called  |-> TRUE,
                    batch   |-> batch,
                    repeat  |-> add_call.called /\ add_call.batch = batch,
                    changed |-> qa_database' # qa_database]

IngestNext ==
    /\ \/ Initialize(TRUE, TRUE, TRUE, TRUE, "ok")
       \/ \E batch \in Batches : RecordedAddQAPairs(batch)
    /\ UNCHANGED <<classifierVars, analyzerVars, contextVars, chatVars, otherVars>>

SpecIngest == StoreInit /\ [][IngestNext]_vars

\* the classifier applied to each text
ClassifyNext ==
    /\ ClassifyQueryCall
    /\ UNCHANGED <<engineVars, analyzerVars, contextVars, chatVars, otherVars>>

\* no other component is in use while the classifier is applied
ClassifyInit ==
    /\ EngineInit /\ ClassifierInit /\ AnalyzerInit(TRUE, TRUE) /\ ContextInit /\ ChatInit
    /\ failing_part = "none" /\ ShapeIdle /\ ThreadsInit /\ SwapInit /\ RouteInit
    /\ cache_at_load = NoFile /\ CustomIdle

SpecClassify == ClassifyInit /\ [][ClassifyNext]_vars


\* the analyzer: any outcome of the optional imports, loading, and one
\* analysis of one text under any behaviour of the libraries
EmotionNext ==
    /\ \/ \E vaderOk, pipelineOk \in BOOLEAN : AnalyzerInitialize(vaderOk, pipelineOk)
       \/ /\ emotion_analysis = NoReading
          /\ \E message \in EmotionTexts, lib \in LibraryOutcomes :
                 AnalyzeTextEmotionsCall(message, lib)
    /\ UNCHANGED <<engineVars, classifierVars, contextVars, chatVars, otherVars>>

\* the optional imports of the analyzer succeeded or failed
EmotionInit ==
    /\ EngineInit /\ ClassifierIdle
    /\ \E sentiment, transformers \in BOOLEAN : AnalyzerInit(sentiment, transformers)
    /\ ContextInit /\ ChatInit
    /\ failing_part = "none" /\ ShapeIdle /\ ThreadsInit /\ SwapInit /\ RouteInit
    /\ cache_at_load = NoFile /\ CustomIdle

SpecEmotion == EmotionInit /\ [][EmotionNext]_vars

\* the histories: exchange after exchange for each user
HistoryNext ==
    /\ \E user_id \in Users :
           LET n == Len(appended[user_id]) + 1
           IN  /\ n <= MaxUpdates
               /\ UpdateConversationContext(user_id, ExchangeAt(n).user_message,
                                             ExchangeAt(n).ai_response,
                                             ExchangeAt(n).emotion_analysis)
    /\ UNCHANGED <<engineVars, classifierVars, analyzerVars, chatVars, otherVars>>

SpecHistory == StoreInit /\ [][HistoryNext]_vars

TotalAppended == Len(appended["asha"]) + Len(appended["ravi"])

\* the summaries: a few readings per user, and summaries of them
TrendNext ==
    /\ \/ \E user_id \in Users, reading \in TrendReadings :
              /\ TotalAppended < MaxReadings
              /\ UpdateConversationContext(user_id, TotalAppended + 1,
                                            TotalAppended + 1, reading)
       \/ \E user_id \in Users : GetEmotionalStateSummary(user_id)
    /\ UNCHANGED <<engineVars, classifierVars, analyzerVars, chatVars, otherVars>>

SpecTrend == StoreInit /\ [][TrendNext]_vars

\* the personality engine: a personality is set, a response is shaped
ShapeNext ==
    \/ \E name \in DOMAIN personality_profiles \cup {"unknown"} : SetPersonality(name)
    \/ /\ \E formality_level \in FormalityLevels(current_personality),
             base_response \in ShapeTexts, reading \in ShapeReadings,
             conversation_stage \in {"greeting", "ongoing"},
             random \in ShapeRandomOutcomes :
             GeneratePersonalityEnhancedResponse(formality_level, base_response, reading,
                                                 conversation_stage, random)
       /\ UNCHANGED <<engineVars, classifierVars, analyzerVars, contextVars, chatVars,
                      failing_part, threadVars, swapVars, routeVars, cache_at_load, customVars>>

SpecShape == StoreInit /\ [][ShapeNext]_vars

\* the request threads: each makes one update_conversation_context call,
\* and the scheduler runs any thread next
ThreadsNext ==
    /\ \E t \in Threads :
          \/ \E user_id \in Users : CallUpdate(t, user_id)
          \/ ThreadStep(t)
    /\ UNCHANGED <<engineVars, classifierVars, analyzerVars, contextVars, chatVars,
                   failing_part, shapeVars, swapVars, routeVars, cache_at_load, customVars>>

SpecThreads == StoreInit /\ [][ThreadsNext]_vars

\* an ingesting thread and a resolving thread on one loaded engine
SwapNext ==
    /\ \/ LoadStore
       \/ \E batch \in SwapBatches : CallAddQAPairs(batch)
       \/ IngestAppend
       \/ IngestLoopEnds
       \/ IngestSave
       \/ IngestRegenerate
       \/ IngestReturn
       \/ \E question \in UserQuestions : CallFindBestAnswer(question)
       \/ ResolverGuard
       \/ \E sims \in [1..Len(question_embeddings) -> SimValues] : ResolverSimilarity(sims)
       \/ ResolverFallBack
       \/ ResolverPick
    /\ UNCHANGED <<classifierVars, analyzerVars, contextVars, chatVars,
                   failing_part, shapeVars, threadVars, routeVars, cache_at_load, customVars>>

SpecSwap == StoreInit /\ [][SwapNext]_vars

\* the /chat requests of the threads
RouteNext ==
    /\ \E t \in Threads :
          \/ \E body \in RouteBodies : RouteValidate(t, body)
          \/ RouteSelect(t)
          \/ RouteCustom(t)
          \/ RouteGenerate(t)
    /\ UNCHANGED <<service_is_initialized, generator, pc, request_message, request_user,
                   response_text, response_metadata>>
    /\ UNCHANGED <<engineVars, classifierVars, analyzerVars, contextVars,
                   failing_part, shapeVars, threadVars, swapVars, cache_at_load, customVars>>

SpecRoute == StoreInit /\ [][RouteNext]_vars

\* initialize() of a process whose model and files can be read; the
\* cache file it finds is kept
Reload ==
    /\ last_op = "construct"
    /\ Initialize(TRUE, TRUE, TRUE, TRUE, "ok")
    /\ cache_at_load' = embedding_cache_file

\* add_qa_pairs during which one step may fail, or during which the
\* process stops before the cache is written (cache_open)
InterruptibleAddQAPairs ==
    \E batch \in SingleBatches, fault \in AddFaults :
        /\ is_initialized
        /\ AddQAPairs(batch, WriteOutcome(fault, "save_open", "save_dump"),
                      fault # "encode", WriteOutcome(fault, "cache_open", "cache_dump"))
        /\ add_call' = [called |-> TRUE, batch |-> batch, repeat |-> FALSE,
                        changed |-> qa_database' # qa_database]
        /\ UNCHANGED cache_at_load

RestartProcess == Restart /\ UNCHANGED cache_at_load

\* the first find_best_answer after initialize()
AskAfterReload ==
    /\ last_op = "initialize"
    /\ \E call \in FindCalls(qa_database, question_embeddings) : FindBestAnswerCall(call)
    /\ UNCHANGED cache_at_load

\* restarts: ingestion under faults, a restart, a reload, then questions
ReloadNext ==
    \/ /\ Reload
       /\ UNCHANGED <<classifierVars, analyzerVars, contextVars, chatVars,
                      failing_part, shapeVars, threadVars, swapVars, routeVars, customVars>>
    \/ /\ InterruptibleAddQAPairs \/ RestartProcess \/ AskAfterReload
       /\ UNCHANGED <<classifierVars, analyzerVars, contextVars, chatVars,
                      failing_part, shapeVars, threadVars, swapVars, routeVars, customVars>>

SpecReload == StoreInit /\ [][ReloadNext]_vars

\* the custom-response lookup of the /chat route
CustomNext ==
    /\ \E message \in CustomMessages : GetCustomResponseCall(message)
    /\ UNCHANGED <<engineVars, classifierVars, analyzerVars, contextVars, chatVars,
                   failing_part, shapeVars, threadVars, swapVars, routeVars, cache_at_load>>

SpecCustom == StoreInit /\ [][CustomNext]_vars

\* the resolver on stores whose records tie: fault-free loading and
\* ingestion, one record per call, and the questions asked
TiesNext ==
    /\ \/ last_op = "construct" /\ Initialize(TRUE, TRUE, TRUE, TRUE, "ok")
       \/ \E pair \in TiePairs :
              /\ is_initialized
              /\ AddQAPairs(<<pair>>, "ok", TRUE, "ok") /\ add_call' = NoCall
       \/ \E call \in TieCalls(qa_database, question_embeddings) :
              is_initialized /\ FindBestAnswerCall(call)
    /\ UNCHANGED <<classifierVars, analyzerVars, contextVars, chatVars, otherVars>>

SpecTies == StoreInit /\ [][TiesNext]_vars

\* the steps of a running generate_response call
ChatStep ==
    \/ ChatInitialize
    \/ \E lib \in ChatLibraryOutcomes(failing_part) : ChatAnalyze(lib)
    \/ ChatClassify
    \/ \E call \in ChatFindCalls(request_message, question_embeddings, failing_part) :
           ChatSemantic(call)
    \/ \E kb \in KnowledgeBaseOutcomes(failing_part) : ChatCompose(kb)
    \/ \E random \in RandomOutcomes(failing_part) : ChatShape(random)
    \/ \E outcome \in GeneratorOutcomes(failing_part) : ChatEnhance(outcome)
    \/ ChatRespond
    \/ ChatFallback

\* the chat service: training, the start of the service and the choice of a
\* personality, then one request
ChatNext ==
    \/ \E batch \in ChatBatches : Train(batch)
    \/ StartService
    \/ \E name \in DOMAIN personality_profiles \cup {"unknown"} : SetPersonality(name)
    \/ \E message \in ChatMessages, user \in ChatUsers : ReceiveRequest(message, user)
    \/ ChatStep

\* all components constructed; one part of the environment may fail
ServiceInit ==
    /\ EngineInit /\ ClassifierIdle /\ AnalyzerInit(TRUE, TRUE) /\ ContextInit /\ ChatInit
    /\ failing_part \in ChatFaults /\ ShapeIdle /\ ThreadsInit /\ SwapInit /\ RouteInit
    /\ cache_at_load = NoFile /\ CustomIdle

SpecChat == ServiceInit /\ [][ChatNext]_vars

\* a step of a running call: pc changes in the steps of ChatStep and in no
\* other step but ReceiveRequest
CallAdvances ==
    /\ pc \notin {"idle", "done"}
    /\ pc' \in {"analyze", "classify", "semantic", "compose", "shape", "enhance",
               "respond", "fallback", "done"} \ {pc}

\* a call that has started runs on: the event loop awaits each stage
SpecChatFair == SpecChat /\ WF_pc(CallAdvances)
(***************************************************************************)
(* Properties of the resolver cascade and of the store                     *)
(***************************************************************************)
Max(S) == CHOOSE x \in S : \A y \in S : y <= x

\* the Jaccard overlap of the question with record i clears 0.3
JaccardClears(db, question, i) ==
    LET uk == ExtractKeywords(Strip(question))
        qk == db[i].keywords
    IN  /\ uk # {} /\ qk # {}
        /\ 10 * Cardinality(uk \cap qk) >= 3 * Cardinality(uk \cup qk)

\* no other record overlaps the question more than record i does
JaccardBest(db, question, i) ==
    LET uk == ExtractKeywords(Strip(question))
        J(k) == [num |-> Cardinality(uk \cap db[k].keywords),
                 den |-> Cardinality(uk \cup db[k].keywords)]
    IN  \A k \in 1..Len(db) : J(k).num * J(i).den <= J(i).num * J(k).den

\* C1: on an initialized engine, find_best_answer returns the match of the
\* lowest-numbered tier whose threshold the question clears (semantic at
\* similarity >= 0.65, else fuzzy at ratio >= 0.70, else keyword at Jaccard
\* >= 0.3), with score and answer of one best record of that tier, and
\* returns nothing only when no tier is cleared.
C1_LowestClearedTier ==
    (find_call.called /\ is_initialized /\ embedding_model) =>
        LET db       == qa_database
            sims     == find_call.sims
            asked    == Strip(find_call.question)
            ratio(i) == SequenceRatio(Lower(asked), Lower(db[i].question))
            topRatio(i) == \A k \in 1..Len(db) :
                              ratio(k).num * ratio(i).den <= ratio(i).num * ratio(k).den
            semantic == /\ find_call.encodeOk /\ Len(sims) > 0
                        /\ Max(Range(sims)) >= 65
            fuzzy    == \E i \in 1..Len(db) : 100 * ratio(i).num >= 70 * ratio(i).den
            keyword  == \E i \in 1..Len(db) : JaccardClears(db, find_call.question, i)
            r        == find_result
        IN  IF semantic
            THEN /\ r.match_type = "semantic"
                 /\ \E i \in 1..Len(sims) :
                        /\ sims[i] = Max(Range(sims))
                        /\ r.similarity_score = [num |-> sims[i], den |-> 100]
                        /\ r.answer = db[i].answer /\ r.qa_id = db[i].id
            ELSE IF fuzzy
            THEN /\ r.match_type = "fuzzy"
                 /\ \E i \in 1..Len(db) :
                        /\ topRatio(i)
                        /\ r.similarity_score = ratio(i)
                        /\ r.answer = db[i].answer /\ r.qa_id = db[i].id
            ELSE IF keyword
            THEN /\ r.match_type = "keyword"
                 /\ \E i \in 1..Len(db) :
                        /\ JaccardClears(db, find_call.question, i)
                        /\ JaccardBest(db, find_call.question, i)
                        /\ r.answer = db[i].answer /\ r.qa_id = db[i].id
            ELSE r = NoMatch

\* C4: after initialize or add_qa_pairs completes, there are as many
\* question embeddings as QA records.
C4_EmbeddingCountEqualsRecordCount ==
    last_op \in {"initialize", "add_qa_pairs"} =>
        Len(question_embeddings) = Len(qa_database)

Normalized(question) == Strip(Lower(question))

NoDuplicateRecords(db) ==
    \A i, j \in 1..Len(db) :
        i # j => Normalized(db[i].question) # Normalized(db[j].question)

\* C5: no two records have questions equal after lower-casing and trimming,
\* and an add_qa_pairs call that repeats the batch of the call before it
\* leaves the records as they were.
C5_IngestionIdempotent ==
    /\ NoDuplicateRecords(qa_database)
    /\ add_call.repeat => ~add_call.changed

\* a batch holding the same question twice (up to case and blanks) was
\* ingested twice in a row and one record stands for it
C5_Witness ==
    /\ add_call.repeat
    /\ Len(add_call.batch) = 2
    /\ Normalized(add_call.batch[1].question) = Normalized(add_call.batch[2].question)
    /\ add_call.batch[1].question # add_call.batch[2].question
    /\ Len(qa_database) = 1

(***************************************************************************)
(* Properties of the query classifier                                      *)
(***************************************************************************)
\* some pattern of the c-th category matches the lower-cased text
CategoryMatches(c, text) ==
    \E p \in 1..Len(query_patterns[c].patterns) :
        Search(query_patterns[c].patterns[p], Lower(text))

MatchingCategories(text) == {c \in 1..Len(query_patterns) : CategoryMatches(c, text)}

ContainedKeywords(text) ==
    {k \in 1..Len(important_keywords) : Contains(Lower(text), Chars(important_keywords[k]))}

Classified == classification # NoClassification

\* C9: a text that hits no category pattern and no vocabulary keyword is
\* classified as 'general' with confidence 0.0 and empty pattern and keyword
\* lists.
C9_NoHitIsGeneral ==
    (Classified /\ MatchingCategories(query) = {} /\ ContainedKeywords(query) = {}) =>
        classification = [primary_category |-> "general", confidence |-> 0,
                          matched_patterns |-> <<>>, keywords |-> <<>>]

\* a text of two words without any hit has been classified
C9_Witness ==
    /\ Classified
    /\ query = Chars("weather there!")
    /\ MatchingCategories(query) = {} /\ ContainedKeywords(query) = {}
    /\ classification.primary_category = "general"

\* C10: when some category pattern matches the lower-cased text, the
\* confidence is 0.8 and the primary category is the first category in
\* table order with a matching pattern; 'Hello there!' is a greeting.
C10_EarliestCategoryWins ==
    /\ (Classified /\ MatchingCategories(query) # {}) =>
          /\ classification.confidence = 80
          /\ \E c \in MatchingCategories(query) :
                /\ \A d \in MatchingCategories(query) : c <= d
                /\ classification.primary_category = query_patterns[c].category
    /\ (Classified /\ query = Chars("Hello there!")) =>
          /\ classification.primary_category = "greeting"
          /\ classification.confidence = 80

\* a text matching patterns of a later category besides a greeting
\* pattern has been classified as a greeting
C10_Witness ==
    /\ Classified
    /\ Cardinality(MatchingCategories(query)) >= 2
    /\ classification.primary_category = "greeting"
    /\ classification.confidence = 80

\* C11: a keyword hit gives confidence 0.6 only when no pattern matched; it
\* leaves the primary category to the patterns and never lowers the 0.8 of a
\* pattern match.  The confidence is one of 0.0, 0.6, 0.8 and a category
\* other than 'general' has confidence 0.8.
C11_KeywordNeverOverridesPattern ==
    Classified =>
        LET matched  == MatchingCategories(query) # {}
            keywords == ContainedKeywords(query) # {}
        IN  /\ classification.confidence \in {0, KeywordConfidence, PatternConfidence}
            /\ classification.primary_category # "general" =>
                   classification.confidence = PatternConfidence
            /\ classification.confidence =
                   IF matched THEN PatternConfidence
                   ELSE IF keywords THEN KeywordConfidence ELSE 0
            /\ ~matched => classification.primary_category = "general"
            /\ Len(classification.keywords) = Cardinality(ContainedKeywords(query))

\* a text with a pattern match and keyword hits has been classified, and so
\* has one with keyword hits only
C11_Witness ==
    /\ Classified
    /\ query = Chars("Hello fraud report")
    /\ MatchingCategories(query) # {}
    /\ Len(classification.keywords) >= 2
    /\ classification.confidence = PatternConfidence
    /\ ClassifyQuery(Chars("fraud")).confidence = KeywordConfidence

(***************************************************************************)
(* Properties of the emotion analyzer                                      *)
(***************************************************************************)
Analyzed == emotion_analysis # NoReading

\* C6: the reading analyze_text_emotions returns has its confidence and its
\* emotional intensity between 0 and 1 (0 and 100 hundredths), however many
\* keywords, phrases and intensity modifiers of one emotion the text hits.
C6_ConfidenceInUnitInterval ==
    Analyzed =>
        /\ emotion_analysis.confidence \in 0..100
        /\ emotion_analysis.emotional_intensity \in 0..100

Tones ==
    {"emergency_supportive", "empathetic", "calming", "encouraging", "positive",
     "supportive", "neutral"}

DistressEmotions == {"fear", "anxiety", "sadness"}

\* the row of the decision table the reading falls in names the tone
ToneTableHolds(reading) ==
    LET emotion == reading.primary_emotion
        tone    == reading.recommended_response_tone
    IN  /\ (emotion \in DistressEmotions /\ reading.urgency_level = "high")
               => tone = "emergency_supportive"
        /\ (emotion \in DistressEmotions /\ reading.urgency_level # "high")
               => tone = "empathetic"
        /\ emotion = "anger" => tone = "calming"
        /\ emotion \in {"hope", "gratitude"} => tone = "encouraging"
        /\ emotion \notin DistressEmotions \cup {"anger", "hope", "gratitude"} =>
               /\ reading.sentiment_score > 30 => tone = "positive"
               /\ reading.sentiment_score < -30 => tone = "supportive"
               /\ reading.sentiment_score \in -30..30 => tone = "neutral"

\* C7: the recommended tone of every reading is the value of the decision
\* table for the reading's primary emotion, sentiment score and urgency, and
\* is one of the seven tones.
C7_ToneFollowsTable ==
    Analyzed =>
        /\ emotion_analysis.recommended_response_tone \in Tones
        /\ ToneTableHolds(emotion_analysis)

\* a text of fear and high urgency has been analyzed
C7_Witness ==
    /\ Analyzed
    /\ emotion_analysis.primary_emotion \in DistressEmotions
    /\ emotion_analysis.urgency_level = "high"
    /\ emotion_analysis.recommended_response_tone = "emergency_supportive"

(***************************************************************************)
(* Properties of the context store                                         *)
(***************************************************************************)
\* the user's stored entries are the latest `kept` appended ones, in order
HoldsLatest(user_id, kept) ==
    LET context == conversation_contexts[user_id]
        n       == Len(appended[user_id])
    IN  /\ Len(context.conversation_history) = kept
        /\ Len(context.emotional_state_history) = kept
        /\ \A i \in 1..kept :
              /\ context.conversation_history[i] = appended[user_id][n - kept + i]
              /\ context.emotional_state_history[i] =
                     appended[user_id][n - kept + i].emotion_analysis

\* C3: after n update_conversation_context calls for a user, both of the
\* user's histories hold the min(n, 20) latest appended entries in append
\* order; 25 calls leave the last 20.
C3_HistoryKeepsLatestTwenty ==
    \A user_id \in DOMAIN conversation_contexts :
        /\ HoldsLatest(user_id, Min(Len(appended[user_id]), 20))
        /\ Len(appended[user_id]) = 25 =>
               /\ Len(conversation_contexts[user_id].conversation_history) = 20
               /\ conversation_contexts[user_id].conversation_history[1].user_message = 6
               /\ conversation_contexts[user_id].conversation_history[20].user_message = 25

\* a user has had 25 exchanges and the stored history starts at the sixth
C3_Witness ==
    \E user_id \in DOMAIN conversation_contexts :
        /\ Len(appended[user_id]) = 25
        /\ Len(conversation_contexts[user_id].conversation_history) = 20
        /\ conversation_contexts[user_id].conversation_history[1].user_message = 6

\* C28: after any sequence of updates, the two histories of every user have
\* the same length and the i-th reading is the reading of the i-th stored
\* exchange; total_interactions is the number of updates made for the user,
\* beyond the cap of the histories; and every context is what the updates
\* of its own user alone give, so an update for another user changes nothing
\* in it
C28_HistoriesAlignedTotalCounts ==
    /\ \A user_id \in DOMAIN conversation_contexts :
           LET context == conversation_contexts[user_id]
           IN  /\ context.user_id = user_id
               /\ Len(context.conversation_history) = Len(context.emotional_state_history)
               /\ \A i \in 1..Len(context.conversation_history) :
                      context.emotional_state_history[i] =
                          context.conversation_history[i].emotion_analysis
               /\ context.total_interactions = Len(appended[user_id])
               /\ context.conversation_history =
                      KeepLast(appended[user_id], HistoryCap)
    /\ \A user_id \in Users \ DOMAIN conversation_contexts : appended[user_id] = <<>>

\* one user has had more updates than the histories keep and the other a
\* few; each total is the number of the user's own updates
C28_Witness ==
    /\ DOMAIN conversation_contexts = Users
    /\ conversation_contexts["asha"].total_interactions = 23
    /\ Len(conversation_contexts["asha"].conversation_history) = HistoryCap
    /\ conversation_contexts["ravi"].total_interactions = 3
    /\ Len(conversation_contexts["ravi"].emotional_state_history) = 3

Summarized == emotional_state_summary.status = "analyzed"

\* the intensities of the readings the summary was computed from: the
\* trailing window of the user's emotional state history
WindowIntensities ==
    LET history == conversation_contexts[emotional_state_summary.user_id]
                       .emotional_state_history
        from    == IF Len(history) > 5 THEN Len(history) - 4 ELSE 1
    IN  [i \in 1..(Len(history) - from + 1) |->
            history[from + i - 1].emotional_intensity]

\* the sum of window[from..to]
RECURSIVE SumRange(_, _, _)
SumRange(window, from, to) ==
    IF from > to THEN 0 ELSE window[from] + SumRange(window, from + 1, to)

\* C8: when a trend is computed (three readings or more in the window), it
\* is 'worsening' exactly when the mean intensity of the last 2 readings
\* exceeds the mean of the readings preceding them (the 2 before, within the
\* window) by more than 0.2, 'improving' exactly when it is lower by more
\* than 0.2, and 'stable' otherwise; [0.2, 0.2, 0.8, 0.8] is 'worsening'.
\* The means are compared multiplied by twice the number of preceding readings.
C8_TrendComparesMeans ==
    (Summarized /\ Len(WindowIntensities) >= 3) =>
        LET window    == WindowIntensities
            n         == Len(window)
            first     == IF n - 3 >= 1 THEN n - 3 ELSE 1
            preceding == (n - 2) - first + 1
            last_two  == SumRange(window, n - 1, n) * preceding
            before    == SumRange(window, first, n - 2) * 2
            margin    == 20 * 2 * preceding
            trend     == emotional_state_summary.emotion_trend
        IN  /\ trend = "worsening" <=> last_two > before + margin
            /\ trend = "improving" <=> last_two < before - margin
            /\ trend \in {"worsening", "improving", "stable"}
            /\ window = <<20, 20, 80, 80>> => trend = "worsening"

\* generate_response has returned its result
Responded == pc = "done" /\ response_metadata # NoResponse

\* C2: every generate_response call returns, and the 'response' text of its
\* result is not empty, whichever part of the environment fails during the
\* call: a call that has started leads to a returned result with text
C2_EveryCallAnswers ==
    (pc = "initialize") ~> (Responded /\ Len(response_metadata.response) > 0)

\* a call whose metadata block raised has returned the fallback response
C2_Witness ==
    /\ Responded
    /\ failing_part = "respond"
    /\ response_metadata.model = "advanced_ai_fallback"
    /\ Len(response_metadata.response) > 0

\* C14: analyze_text_emotions always returns a reading: the neutral reading
\* when a step of its own fails; and when only the emotion model or only the
\* sentiment libraries fail, the result of the patterns stays in place
C14_FailureGivesNeutralReading ==
    Analyzed =>
        LET scan == ScanOfText[analyzed_text]
            lib  == library_outcome
        IN  /\ lib.internal = "raises" => emotion_analysis = NeutralReading
            /\ (lib.internal = "ok" /\ lib.classifier.kind = "raises") =>
                   /\ emotion_analysis.primary_emotion = scan.patterns.primary_emotion
                   /\ emotion_analysis.confidence = scan.patterns.max_confidence
                   /\ emotion_analysis.secondary_emotions = scan.patterns.detected_emotions
                   /\ emotion_analysis.urgency_level = scan.urgency
                   /\ emotion_analysis.support_type_needed = scan.support_type
            /\ (lib.internal = "ok" /\ lib.vader.kind = "raises"
                    /\ lib.textblob.kind = "raises") =>
                   emotion_analysis.sentiment_score = 0

\* a text with fear keywords was analyzed, a step failed, and the neutral
\* reading came back
C14_Witness ==
    /\ Analyzed
    /\ library_outcome.internal = "raises"
    /\ ScanOfText[analyzed_text].patterns.primary_emotion = "fear"
    /\ emotion_analysis = NeutralReading

\* the capped score of the e-th registered emotion for the text
CappedScore(e, text) ==
    LET score == EmotionScore(emotion_patterns[e], Lower(text))
    IN  IF score > 100 THEN 100 ELSE score

\* only the patterns decided the reading: no step failed and the emotion
\* model gave no label
PatternOnly ==
    /\ Analyzed
    /\ library_outcome.internal = "ok"
    /\ library_outcome.classifier.kind # "top"

\* C24: in pattern-only scoring the primary emotion is the first registered
\* emotion whose capped score (0.3 per keyword, 0.4 per phrase, 0.2 per
\* intensity modifier, at most 1.0) is the highest, and 'neutral' when no
\* emotion scores
C24_PrimaryIsFirstArgMaxOfCappedScores ==
    PatternOnly =>
        LET text   == analyzed_text
            scored == {e \in DOMAIN emotion_patterns : CappedScore(e, text) > 0}
        IN  IF scored = {}
            THEN emotion_analysis.primary_emotion = "neutral"
            ELSE \E e \in scored :
                    /\ emotion_analysis.primary_emotion = emotion_patterns[e].emotion
                    /\ \A o \in scored :
                           \/ CappedScore(o, text) < CappedScore(e, text)
                           \/ CappedScore(o, text) = CappedScore(e, text) /\ e <= o

(***************************************************************************)
(* Properties of the personality engine                                    *)
(***************************************************************************)
\* the casual forms _make_more_casual writes
CasualContractions ==
    <<"i'm", "don't", "can't", "won't", "shouldn't", "wouldn't", "it's", "that's">>

HasCasualContraction(text) ==
    \E i \in 1..Len(CasualContractions) :
        Contains(Lower(text), Chars(CasualContractions[i]))

\* a shaping has returned without an exception inside
ShapedWithoutFailure == shape_result.returned /\ shape_call.random.raises = "none"

\* the profile the last shaping ran under
ShapeProfile == shape_call.profiles[shape_call.personality]

\* C12: the text returned by generate_personality_enhanced_response under a
\* profile with formality 0.9 contains no casual contraction, whatever the
\* base text, the reading and the conversation stage
C12_FormalProfileHasNoContraction ==
    (ShapedWithoutFailure /\ ShapeProfile.formality_level = 90) =>
        ~HasCasualContraction(shape_result.text)

\* C13: when a step of the shaping fails, the base text is returned as it
\* was given
C13_FailureReturnsBaseText ==
    (shape_result.returned /\ shape_call.random.raises \in ShapeSteps) =>
        shape_result.text = shape_call.base_response

\* the shaping failed in its last step after the earlier steps had changed
\* the text, and the base text was returned
C13_Witness ==
    /\ shape_result.returned
    /\ shape_call.random.raises = "modifiers"
    /\ AddPersonalityElements(
           ApplyPersonalityStyle(shape_call.base_response, ShapeProfile, shape_call.reading),
           ShapeProfile, shape_call.personality, shape_call.reading,
           shape_call.conversation_stage, shape_call.random) # shape_call.base_response
    /\ shape_result.text = shape_call.base_response

(***************************************************************************)
(* Properties of the request threads                                       *)
(***************************************************************************)
\* every thread has made its call and returned
AllReturned == \A t \in Threads : thread_pc[t] = "done"

\* the contexts self.conversation_contexts refers to
StoredContexts ==
    [u \in {v \in Users : context_refs[v] # 0} |-> context_objects[context_refs[u]]]

\* the orders the calls of the threads can be run in, one after another
CallOrders ==
    {o \in [1..Cardinality(Threads) -> Threads] : \A i, j \in DOMAIN o : o[i] = o[j] => i = j}

\* the contexts after the calls of the threads have run in the given order
RECURSIVE ContextsAfter(_, _)
ContextsAfter(order, n) ==
    IF n = 0 THEN EmptyDict
    ELSE LET t == order[n]
         IN  UpdatedContexts(ContextsAfter(order, n - 1), thread_frame[t].user_id,
                             ThreadExchange(t).user_message, ThreadExchange(t).ai_response,
                             ThreadExchange(t).emotion_analysis)

\* C15: whatever the interleaving of the requests, the contexts are those of
\* running their update_conversation_context calls one after another in
\* some order: no exchange is lost, the two lists are aligned, and
\* total_interactions counts every call
C15_ContextUpdatesSerialized ==
    AllReturned =>
        \E order \in CallOrders :
            StoredContexts = ContextsAfter(order, Cardinality(Threads))

(***************************************************************************)
(* Properties of ingestion running beside the resolver                     *)
(***************************************************************************)
\* C16: a find_best_answer call that ran beside add_qa_pairs read a record
\* list and an embedding list of equal length, the embeddings being those
\* of the records, and the records being a database that stood before or
\* after an ingestion, never one in the middle of it
C16_ResolverSeesOneVersion ==
    resolver_pc = "done" =>
        /\ Len(resolver_frame.seen_records) = Len(resolver_frame.seen_embeddings)
        /\ resolver_frame.seen_embeddings = Encode(resolver_frame.seen_records)
        /\ \/ \E i \in DOMAIN ingest_frame.versions :
                  resolver_frame.seen_records = ingest_frame.versions[i]
           \/ ingest_pc # "idle" /\ resolver_frame.seen_records = qa_database

(***************************************************************************)
(* Properties of the resolver when the embedding provider fails            *)
(***************************************************************************)
\* what tiers 2 and 3 return for the question on the database
LowerTiers(db, question) ==
    LET fuzzy_result == FuzzyMatchQuestion(db, Strip(question))
    IN  IF fuzzy_result # NoMatch THEN fuzzy_result
        ELSE KeywordMatchQuestion(db, Strip(question))

\* C17: when embedding_model.encode raises during a find_best_answer call
\* on a loaded, non-empty store, the call returns what the fuzzy tier and
\* then the keyword tier find, a match whenever one of them clears its
\* threshold
C17_ProviderFailureDegrades ==
    (find_call.called /\ ~find_call.encodeOk /\ is_initialized /\ qa_database # <<>>) =>
        find_result = LowerTiers(qa_database, find_call.question)

(***************************************************************************)
(* Properties of the /chat route                                           *)
(***************************************************************************)
\* the message of the body is missing, not text, or empty after trimming
MalformedInput(body) ==
    \/ body.json # "object"
    \/ body.message.kind # "text"
    \/ Strip(body.message.text) = <<>>

\* C18: a request whose message is missing, empty after trimming or not
\* text is answered with the client error 400, never with the internal
\* server error 500
C18_MalformedInputIsClientError ==
    \A t \in Threads :
        (route_pc[t] = "done" /\ MalformedInput(route_request[t])) =>
            route_response[t].status = 400

\* C20: two requests with the same body whose answers were shaped were
\* shaped with the same profile, whatever the other requests selected
C20_ProfileDependsOnRequestOnly ==
    \A t1, t2 \in Threads :
        (/\ route_pc[t1] = "done" /\ route_pc[t2] = "done"
         /\ route_request[t1] = route_request[t2]
         /\ route_response[t1].status = 200 /\ route_response[t2].status = 200) =>
            route_response[t1].profile = route_response[t2].profile

(***************************************************************************)
(* Properties of a reload                                                  *)
(***************************************************************************)
\* a question has been asked of the store as initialize() loaded it
AskedAfterReload == find_call.called /\ is_initialized /\ add_call = NoCall

\* the cache file initialize() found held another number of embeddings than
\* the database file holds records
CacheWasStale ==
    /\ qa_database_file.kind = "ok"
    /\ cache_at_load.kind = "ok"
    /\ Len(cache_at_load.data) # Len(qa_database_file.data)

AnsweredNaming(t, personality) ==
    /\ route_pc[t] = "done"
    /\ route_request[t].personality = personality
    /\ ~MalformedInput(route_request[t])

WindowEmotions ==
    LET history == conversation_contexts[emotional_state_summary.user_id]
                       .emotional_state_history
        from    == IF Len(history) > 5 THEN Len(history) - 4 ELSE 1
    IN  [i \in 1..(Len(history) - from + 1) |-> history[from + i - 1].primary_emotion]

\* how often the emotion occurs in the window, and where it occurs last
TimesIn(window, emotion) == Cardinality({i \in DOMAIN window : window[i] = emotion})
LatestIn(window, emotion) ==
    CHOOSE i \in DOMAIN window :
        window[i] = emotion /\ \A j \in DOMAIN window : window[j] = emotion => j <= i

\* C23: the dominant emotion of a summary is the most frequent primary
\* emotion of the trailing 5 readings, and among equally frequent emotions
\* the one that occurs latest
C23_DominantIsModeLatestOnTie ==
    Summarized =>
        LET window   == WindowEmotions
            dominant == emotional_state_summary.dominant_emotion
        IN  /\ dominant \in Range(window)
            /\ \A other \in Range(window) :
                   \/ TimesIn(window, other) < TimesIn(window, dominant)
                   \/ /\ TimesIn(window, other) = TimesIn(window, dominant)
                      /\ LatestIn(window, other) <= LatestIn(window, dominant)

(***************************************************************************)
(* Properties of the records an ingestion leaves                           *)
(***************************************************************************)
\* the pair can give a record: its question and its answer are not blank
Ingestible(pair) == Strip(pair.question) # <<>> /\ Strip(pair.answer) # <<>>

\* what an add_qa_pairs call with the given batch may do to the records
AppendsOnly(before, after, batch) ==
    /\ Len(after) >= Len(before)
    /\ SubSeq(after, 1, Len(before)) = before
    /\ \A i \in 1..Len(after) : after[i].id = i - 1
    /\ \A i, j \in 1..Len(after) :
           Strip(Lower(after[i].question)) = Strip(Lower(after[j].question)) => i = j
    /\ \A i \in (Len(before) + 1)..Len(after) :
           \E k \in 1..Len(batch) :
               /\ Ingestible(batch[k])
               /\ after[i].question = Strip(batch[k].question)
               /\ after[i].answer = Strip(batch[k].answer)
    /\ Len(after) - Len(before) <= Cardinality({k \in 1..Len(batch) : Ingestible(batch[k])})

\* C29: an add_qa_pairs call leaves the records it found as they were and
\* in place, and appends records only: each new record comes from a pair of
\* the batch with a question and an answer, no question is stored twice (a
\* known question keeps its first answer), and the id of every record is
\* its position in the store
C29_IngestionOnlyAppends ==
    [][add_call'.called /\ last_op' = "add_qa_pairs" =>
           AppendsOnly(qa_database, qa_database', add_call'.batch)]_vars

\* a known question was ingested again with another answer, next to a pair
\* without a question: the store still holds the one record, with the
\* first answer
C29_Witness ==
    /\ add_call.called /\ last_op = "add_qa_pairs"
    /\ add_call.batch = <<[question |-> Q_UpiPinCased, answer |-> A_No, category |-> "security"],
                          [question |-> Q_Blank, answer |-> A_Ok, category |-> "general"]>>
    /\ Len(qa_database) = 2
    /\ qa_database[1].question = Q_ResetPin
    /\ qa_database[2].question = Q_UpiPin /\ qa_database[2].answer = Strip(A_Ok)
    /\ qa_database[2].id = 1

(***************************************************************************)
(* Properties of the humor suffix                                          *)
(***************************************************************************)
\* the shaped text carries one of the humor additions
HasHumorSuffix ==
    \E k \in 1..Len(humor_additions) : Contains(shape_result.text, Chars(humor_additions[k]))

\* the reading of the shaping call is of the distress class or of high urgency
DistressOrUrgent ==
    \/ shape_call.reading.primary_emotion \in {"fear", "anxiety", "sadness"}
    \/ shape_call.reading.urgency_level = "high"

\* C27: a text shaped for a reading whose primary emotion is fear, anxiety
\* or sadness, or whose urgency is high, carries no humor suffix, under every
\* profile and every outcome of the random draws
C27_NoHumorInDistress ==
    shape_result.returned /\ DistressOrUrgent => ~HasHumorSuffix

\* a shaping under a profile that uses humor, with a draw that picks a humor
\* addition, for a neutral reading of high urgency
C27_Witness ==
    /\ shape_result.returned
    /\ shape_call.profiles[shape_call.personality].humor_usage > 50
    /\ shape_call.random.humor > 0 /\ shape_call.random.raises = "none"
    /\ shape_call.reading.primary_emotion = "neutral"
    /\ shape_call.reading.urgency_level = "high"
    /\ ~HasHumorSuffix

(***************************************************************************)
(* Properties of the order of generate_response                            *)
(***************************************************************************)
\* a stage of the running call raises to generate_response itself
StageRaises == failing_part \in {"analyze", "update", "classify", "respond"}

\* the texts the source chosen for the running call can give: the answer of
\* the resolver when it matched, and otherwise the composition for the
\* category, which is the generic fallback text when the knowledge base
\* finds nothing or the composition raises
BaseTexts ==
    IF find_result # NoMatch THEN {find_result.answer}
    ELSE {GenerateComprehensiveResponse(request_message, classification, kb) :
              kb \in KnowledgeBaseOutcomes(failing_part)}

\* the shapings of the base texts under the reading of the running call
ShapedTexts ==
    {PersonalityEnhancedResponse(base, emotion_analysis, StageOf[request_message],
                                 current_personality, random) :
         base \in BaseTexts, random \in RandomOutcomes(failing_part)}

\* the latest exchange in the context of the user of the running call
LatestExchange ==
    LET history == conversation_contexts[request_user].conversation_history
    IN  history[Len(history)]

\* the context of the user of the running call ends with this call's exchange
ContextHoldsExchange ==
    /\ request_user \in DOMAIN conversation_contexts
    /\ LatestExchange.user_message = request_message
    /\ LatestExchange.emotion_analysis = emotion_analysis

\* C26: in a call none of whose stages raises, the base text is the answer
\* of the resolver when the cascade matched and otherwise the composition or
\* the generic fallback text; the text after the personality block is a
\* shaping of it; and from then on, so at the return, the context of the
\* given user ends with the message and that shaped text
C26_SourceThenShapeThenContext ==
    ~StageRaises =>
        /\ pc = "shape" => response_text \in BaseTexts
        /\ pc = "shape" /\ find_result = NoMatch /\ classification.primary_category = "general" =>
               response_text \in {GenerateFallbackResponse(request_message),
                                  HandleGeneralQuery(request_message,
                                      [raises |-> FALSE, found |-> TRUE, greeting |-> 1]).text}
        /\ pc = "enhance" =>
               /\ response_text \in ShapedTexts
               /\ request_user # "" =>
                      ContextHoldsExchange /\ LatestExchange.ai_response = response_text
        /\ pc \in {"respond", "done"} /\ request_user # "" => ContextHoldsExchange
        /\ pc = "done" =>
               /\ response_metadata.model # "advanced_ai_fallback"
               /\ response_metadata.response = response_text
               /\ request_user # "" =>
                      \E outcome \in GeneratorOutcomes(failing_part) :
                          response_text = AIEnhanced(LatestExchange.ai_response, outcome)

\* a call answered from the resolver has returned, and the context of its
\* user holds a shaped text that differs from the resolver's answer
C26_Witness ==
    /\ pc = "done" /\ ~StageRaises /\ request_user # ""
    /\ find_result # NoMatch
    /\ ContextHoldsExchange
    /\ LatestExchange.ai_response # find_result.answer
    /\ response_metadata.response = LatestExchange.ai_response

(***************************************************************************)
(* Properties of the resolver on ties                                      *)
(***************************************************************************)
\* the position in the store of the record find_best_answer returned
ReturnedIndex ==
    CHOOSE i \in 1..Len(qa_database) : qa_database[i].id = find_result.qa_id

\* the score of record i in the tier that answered, as a fraction
TierScore(i) ==
    LET asked == Strip(find_call.question)
        uk    == ExtractKeywords(asked)
    IN  CASE find_result.match_type = "semantic" ->
                 [num |-> find_call.sims[i], den |-> 100]
          [] find_result.match_type = "fuzzy" ->
                 SequenceRatio(Lower(asked), Lower(qa_database[i].question))
          [] find_result.match_type = "keyword" ->
                 [num |-> Cardinality(uk \cap qa_database[i].keywords),
                  den |-> Cardinality(uk \cup qa_database[i].keywords)]

\* records i and k score the same in the tier that answered
SameScore(i, k) == TierScore(i).num * TierScore(k).den = TierScore(k).num * TierScore(i).den

\* C25: the record find_best_answer returns is the first record in stored
\* order among those with the best score of the tier that answered, and on
\* an empty store the call returns no match
C25_TiesGoToFirstStored ==
    find_call.called =>
        /\ qa_database = <<>> => find_result = NoMatch
        /\ find_result # NoMatch =>
               /\ find_result.matched_question = qa_database[ReturnedIndex].question
               /\ \A k \in 1..Len(qa_database) :
                      /\ TierScore(k).num * TierScore(ReturnedIndex).den
                             <= TierScore(ReturnedIndex).num * TierScore(k).den
                      /\ SameScore(k, ReturnedIndex) => ReturnedIndex <= k

\* a later record ties with the returned one, in the named tier
TieIn(tier) ==
    /\ find_call.called /\ find_result.match_type = tier
    /\ \E k \in 1..Len(qa_database) : k > ReturnedIndex /\ SameScore(k, ReturnedIndex)

C25_Witness == TieIn("fuzzy")

(***************************************************************************)
(* Properties of the custom responses                                      *)
(***************************************************************************)
\* the categories one of whose triggers is the message, letter case and
\* punctuation aside
CategoriesOfPhrase(message) ==
    {CUSTOM_RESPONSES[k].category : k \in
        {k \in DOMAIN CUSTOM_RESPONSES :
            \E j \in DOMAIN CUSTOM_RESPONSES[k].triggers :
                CleanText(CUSTOM_RESPONSES[k].triggers[j]) = CleanText(Lower(message))}}

\* C21: a message that is a trigger phrase of a category, in any letter
\* case and with or without punctuation, is answered with the response of
\* that category
C21_TriggerGetsOwnResponse ==
    (custom_asked /\ CategoriesOfPhrase(custom_message) # {}) =>
        custom_response \in CategoriesOfPhrase(custom_message)

\* C30: a custom response is returned only for a message that has a whole
\* word in common with a trigger of the category answering
C30_ResponseNeedsCommonWord ==
    (custom_asked /\ custom_response # NoCustomResponse) =>
        \E k \in DOMAIN CUSTOM_RESPONSES :
            /\ CUSTOM_RESPONSES[k].category = custom_response
            /\ \E j \in DOMAIN CUSTOM_RESPONSES[k].triggers :
                   Range(Split(CleanText(CUSTOM_RESPONSES[k].triggers[j])))
                       \cap Range(Split(CleanText(Lower(custom_message)))) # {}
====
